---- MODULE Spec2Model ----
(***************************************************************************)
(* Model of the iaz-dashboard layout core.                                 *)
(*                                                                         *)
(* GridEngine (src/src/core/GridEngine.ts) is a class of static, stateless *)
(* functions over widget collections; IAZDashboard                          *)
(* (src/src/core/Dashboard.ts) owns the canonical state and calls them.    *)
(*                                                                         *)
(* Numbers that the code passes through Math.round (requested x, y, w, h)  *)
(* are represented in HALF grid units, so that rounding is observable:     *)
(* the request 3 stands for 1.5.  Widget fields are whole grid units.      *)
(***************************************************************************)
EXTENDS Integers, Sequences, FiniteSets, TLC

VARIABLES
    op,       \* the operation being called, "<name>" , and whether it returned
    pc,       \* "call" before the operation ran, "done" after it returned
    widgets,  \* the widget collection passed to the operation
    columns,  \* the column count passed to the operation
    arg,      \* the other arguments of the call (a record, by operation)
    ret,      \* what the operation returned (a record, by operation)
    state,    \* IAZDashboard.state: the canonical [columns, widgets]
    options,  \* IAZDashboard.options / batchMode: [floatMode, autoPosition, batchMode]
    dragEngine,         \* DragEngine.state: the drag session, or null
    resizeEngine,       \* ResizeEngine.state: the resize session, or null
    breakpointManager,  \* BreakpointManager: [breakpoints, currentBreakpointName], or null
    window,             \* window.innerWidth, the viewport width the manager reads
    trace     \* what the calls so far did: notifications emitted, setState calls, layouts read

engines == <<dragEngine, resizeEngine, breakpointManager, window, trace>>

vars == <<op, pc, widgets, columns, arg, ret, state, options, engines>>

----------------------------------------------------------------------------
(* Bounds of the model *)

MaxWidgets == 3      \* widgets in a drawn collection
MaxX == 1            \* largest x of a drawn widget
MaxY == 1            \* largest y of a drawn widget
MaxSpan == 2         \* largest w and h of a drawn widget
MaxReq == 3          \* largest requested coordinate or span, in whole units
MaxCalls == 3        \* method calls made on an engine or a manager after its construction
MaxWidth == 3        \* largest breakpoint width and viewport width drawn

(* Program constants *)

Undef == -1          \* an optional number that is absent (minW?, maxW?, x?, excludeId?)
maxIterations == 100 \* GridEngine.resolveCollisions: cap on push-down passes
ScanRows == 10       \* GridEngine.findFirstAvailablePosition: rows scanned below the layout
DefaultW == 4        \* IAZDashboard.addWidget: default width
DefaultH == 3        \* IAZDashboard.addWidget: default height
RESIZE_DEBOUNCE == 150   \* BreakpointManager: the debounce delay (ms)
AUTO_SCROLL_THRESHOLD == 50   \* DragEngine, ResizeEngine: pixels from the edge
AUTO_SCROLL_SPEED == 10       \* DragEngine, ResizeEngine: pixels per tick

----------------------------------------------------------------------------
(* Arithmetic helpers *)

Max(a, b) == IF a >= b THEN a ELSE b
Min(a, b) == IF a <= b THEN a ELSE b

\* Math.round of a number given in half units: round half up (towards +Infinity)
MathRound(value2) == (value2 + 1) \div 2

\* a ?? b on an optional number
Coalesce(a, b) == IF a = Undef THEN b ELSE a

----------------------------------------------------------------------------
(* GridEngine *)

\* (mutant: <= written as <, so that touching rectangles collide)
CheckCollisionInclusive(w1, w2) ==
    ~( \/ w1.x + w1.w < w2.x
       \/ w2.x + w2.w < w1.x
       \/ w1.y + w1.h < w2.y
       \/ w2.y + w2.h < w1.y )

\* checkCollision(w1, w2): axis-aligned overlap, boundaries exclusive
CheckCollision(w1, w2) ==
    ~( \/ w1.x + w1.w <= w2.x
       \/ w2.x + w2.w <= w1.x
       \/ w1.y + w1.h <= w2.y
       \/ w2.y + w2.h <= w1.y )

\* getCollidingWidgets(widget, widgets): the others (by id) that overlap it
GetCollidingWidgets(widget, ws) ==
    SelectSeq(ws, LAMBDA w : w.id # widget.id /\ CheckCollision(widget, w))

\* isWithinBounds(widget, columns)
IsWithinBounds(widget, cols) ==
    widget.x >= 0 /\ widget.x + widget.w <= cols /\ widget.y >= 0

\* snapToGrid(value): Math.max(0, Math.round(value)); value in half units
SnapToGrid(value2) == Max(0, MathRound(value2))

\* the comparator of sortWidgets is negative: a sorts before b
SortsBefore(a, b) == a.y < b.y \/ (a.y = b.y /\ a.x < b.x)

\* one step of a stable sort: e goes after every element that does not sort after it
InsertSorted(sorted, e) ==
    LET k == Cardinality({i \in 1..Len(sorted) : ~SortsBefore(e, sorted[i])})
    IN  SubSeq(sorted, 1, k) \o <<e>> \o SubSeq(sorted, k + 1, Len(sorted))

\* sortWidgets(widgets): a sorted copy, by (y, x); Array.prototype.sort is stable
RECURSIVE SortWidgetsFrom(_, _, _)
SortWidgetsFrom(ws, i, sorted) ==
    IF i > Len(ws) THEN sorted
    ELSE SortWidgetsFrom(ws, i + 1, InsertSorted(sorted, ws[i]))

SortWidgets(ws) == SortWidgetsFrom(ws, 1, <<>>)

\* getBottomY(widgets): max(y + h), 0 when empty
RECURSIVE MaxBottom(_, _, _)
MaxBottom(ws, i, best) ==
    IF i > Len(ws) THEN best
    ELSE MaxBottom(ws, i + 1, Max(best, ws[i].y + ws[i].h))

GetBottomY(ws) ==
    IF Len(ws) = 0 THEN 0 ELSE MaxBottom(ws, 2, ws[1].y + ws[1].h)

\* widgets.some(existing => checkCollision(testWidget, existing))
HasCollision(testWidget, ws) ==
    \E i \in 1..Len(ws) : CheckCollision(testWidget, ws[i])

\* the row-major scan of findFirstAvailablePosition, from candidate (x, y)
RECURSIVE ScanGrid(_, _, _, _, _, _, _)
ScanGrid(x, y, w, h, ws, cols, maxY) ==
    IF y > maxY THEN [x |-> 0, y |-> GetBottomY(ws)]
    ELSE IF x > cols - w THEN ScanGrid(0, y + 1, w, h, ws, cols, maxY)
    ELSE IF ~HasCollision([x |-> x, y |-> y, w |-> w, h |-> h], ws)
         THEN [x |-> x, y |-> y]
         ELSE ScanGrid(x + 1, y, w, h, ws, cols, maxY)

\* (mutant: the two for loops swapped, scanning column by column)
FindFirstColumnMajor(widget, ws, cols) ==
    IF widget.w > cols THEN [x |-> 0, y |-> GetBottomY(ws)]
    ELSE LET free == {p \in [x : 0..(cols - widget.w), y : 0..(GetBottomY(ws) + ScanRows)] :
                         ~HasCollision([x |-> p.x, y |-> p.y, w |-> widget.w, h |-> widget.h], ws)}
         IN  CHOOSE p \in free :
                \A q \in free : p.x < q.x \/ (p.x = q.x /\ p.y <= q.y)

\* findFirstAvailablePosition(widget, widgets, columns)
FindFirstAvailablePosition(widget, ws, cols) ==
    IF widget.w > cols THEN [x |-> 0, y |-> GetBottomY(ws)]
    ELSE ScanGrid(0, 0, widget.w, widget.h, ws, cols, GetBottomY(ws) + ScanRows)

\* (mutant: the while loop written as an if, moving up one row at most)
MoveUpOnce(moved, compacted) ==
    IF moved.y > 0 /\ ~HasCollision([moved EXCEPT !.y = moved.y - 1], compacted)
    THEN [moved EXCEPT !.y = moved.y - 1]
    ELSE moved

\* compactLayout, inner loop: move one widget up while the row above is free
RECURSIVE MoveUp(_, _)
MoveUp(moved, compacted) ==
    IF moved.y > 0 /\ ~HasCollision([moved EXCEPT !.y = moved.y - 1], compacted)
    THEN MoveUp([moved EXCEPT !.y = moved.y - 1], compacted)
    ELSE moved

\* (mutant: the row above is tested against the collection as it was passed,
\* not against the widgets compacted so far)
RECURSIVE CompactFromOriginal(_, _, _)
CompactFromOriginal(sorted, i, compacted) ==
    IF i > Len(sorted) THEN compacted
    ELSE CompactFromOriginal(sorted, i + 1,
            Append(compacted,
                   MoveUp(sorted[i], [j \in 1..(Len(sorted) - 1) |->
                                         IF j < i THEN sorted[j] ELSE sorted[j + 1]])))

RECURSIVE CompactFrom(_, _, _)
CompactFrom(sorted, i, compacted) ==
    IF i > Len(sorted) THEN compacted
    ELSE CompactFrom(sorted, i + 1, Append(compacted, MoveUp(sorted[i], compacted)))

\* compactLayout(widgets)
CompactLayout(ws) == CompactFrom(SortWidgets(ws), 1, <<>>)

\* Object.assign(target, source): source's own fields override target's
ObjectAssign(target, source) ==
    [f \in (DOMAIN target) \cup (DOMAIN source) |->
        IF f \in DOMAIN source THEN source[f] ELSE target[f]]

\* result.find(w => w.id === id): index of the first match, 0 when none
FindIndex(ws, id) ==
    IF \E i \in 1..Len(ws) : ws[i].id = id
    THEN CHOOSE i \in 1..Len(ws) :
            ws[i].id = id /\ \A j \in 1..(i - 1) : ws[j].id # id
    ELSE 0

\* (mutant: the noMove flag forgotten)
IsPushableIgnoringNoMove(widget) == ~widget.locked

\* the widget may be pushed by resolveCollisions: if (widget.locked || widget.noMove) continue
IsPushable(widget) == ~(widget.locked \/ widget.noMove)

\* (mutant: every pass reports a change)
RECURSIVE PushPassUnsettled(_, _, _)
PushPassUnsettled(result, i, changed) ==
    IF i > Len(result) THEN [widgets |-> result, hasChanges |-> TRUE]
    ELSE LET widget == result[i]
             colliding == GetCollidingWidgets(widget, result)
             lowestY == GetBottomY(colliding)
         IN  IF IsPushable(widget) /\ Len(colliding) > 0 /\ widget.y < lowestY
             THEN PushPassUnsettled([result EXCEPT ![i].y = lowestY], i + 1, TRUE)
             ELSE PushPassUnsettled(result, i + 1, changed)

\* one pass of the for loop of resolveCollisions, from index i;
\* returns the collection and whether anything changed
RECURSIVE PushPass(_, _, _)
PushPass(result, i, changed) ==
    IF i > Len(result) THEN [widgets |-> result, hasChanges |-> changed]
    ELSE LET widget == result[i]
             colliding == GetCollidingWidgets(widget, result)
             lowestY == GetBottomY(colliding)
         IN  IF IsPushable(widget) /\ Len(colliding) > 0 /\ widget.y < lowestY
             THEN PushPass([result EXCEPT ![i].y = lowestY], i + 1, TRUE)
             ELSE PushPass(result, i + 1, changed)

\* (mutant: one pass only, no repetition until nothing changes)
PushLoopOnce(result, iterations) ==
    [widgets |-> PushPass(result, 1, FALSE).widgets, iterations |-> iterations + 1]

\* the while loop of resolveCollisions: passes until one changes nothing, or the cap
RECURSIVE PushLoop(_, _)
PushLoop(result, iterations) ==
    IF iterations >= maxIterations THEN [widgets |-> result, iterations |-> iterations]
    ELSE LET pass == PushPass(result, 1, FALSE)
         IN  IF pass.hasChanges
             THEN PushLoop(pass.widgets, iterations + 1)
             ELSE [widgets |-> pass.widgets, iterations |-> iterations + 1]

\* (mutant: the collection is returned sorted by row and column)
ResolveCollisionsRunSorted(movedWidget, ws) ==
    LET k == FindIndex(ws, movedWidget.id)
        run == PushLoop([ws EXCEPT ![k] = ObjectAssign(ws[k], movedWidget)], 0)
    IN  IF k = 0 THEN [widgets |-> ws, iterations |-> 0]
        ELSE [widgets |-> SortWidgets(run.widgets), iterations |-> run.iterations]

\* resolveCollisions with the number of passes it ran
ResolveCollisionsRun(movedWidget, ws) ==
    LET k == FindIndex(ws, movedWidget.id)
    IN  IF k = 0 THEN [widgets |-> ws, iterations |-> 0]
        ELSE PushLoop([ws EXCEPT ![k] = ObjectAssign(ws[k], movedWidget)], 0)

\* resolveCollisions(movedWidget, widgets)
ResolveCollisions(movedWidget, ws) == ResolveCollisionsRun(movedWidget, ws).widgets

Null == [isNull |-> TRUE, widgets |-> <<>>]
Some(ws) == [isNull |-> FALSE, widgets |-> ws]

\* (mutant: the noMove flag not checked)
MoveWidgetIgnoringNoMove(widgetId, x2, y2, ws, cols) ==
    LET k == FindIndex(ws, widgetId)
    IN  IF k = 0 THEN Null
        ELSE IF ws[k].locked THEN Null
        ELSE LET snapped == [ws[k] EXCEPT !.x = SnapToGrid(x2), !.y = SnapToGrid(y2)]
                 movedWidget ==
                    IF ~IsWithinBounds(snapped, cols)
                    THEN [snapped EXCEPT !.x = Max(0, Min(snapped.x, cols - snapped.w)),
                                         !.y = Max(0, snapped.y)]
                    ELSE snapped
             IN  Some(ResolveCollisions(movedWidget, ws))

\* (mutant: the position not clamped to the grid)
MoveWidgetNoClamp(widgetId, x2, y2, ws, cols) ==
    LET k == FindIndex(ws, widgetId)
    IN  IF k = 0 THEN Null
        ELSE IF ws[k].locked \/ ws[k].noMove THEN Null
        ELSE Some(ResolveCollisions(
                    [ws[k] EXCEPT !.x = SnapToGrid(x2), !.y = SnapToGrid(y2)], ws))

\* moveWidget(widgetId, x, y, widgets, columns); x, y in half units
MoveWidget(widgetId, x2, y2, ws, cols) ==
    LET k == FindIndex(ws, widgetId)
    IN  IF k = 0 THEN Null
        ELSE IF ws[k].locked \/ ws[k].noMove THEN Null
        ELSE LET snapped == [ws[k] EXCEPT !.x = SnapToGrid(x2), !.y = SnapToGrid(y2)]
                 movedWidget ==
                    IF ~IsWithinBounds(snapped, cols)
                    THEN [snapped EXCEPT !.x = Max(0, Min(snapped.x, cols - snapped.w)),
                                         !.y = Max(0, snapped.y)]
                    ELSE snapped
             IN  Some(ResolveCollisions(movedWidget, ws))

\* (mutant: maxW and maxH not applied)
ResizeWidgetNoMax(widgetId, w2, h2, ws, cols) ==
    LET k == FindIndex(ws, widgetId)
    IN  IF k = 0 THEN Null
        ELSE IF ws[k].locked \/ ws[k].noResize THEN Null
        ELSE LET sized == [ws[k] EXCEPT !.w = Max(Coalesce(ws[k].minW, 1), SnapToGrid(w2)),
                                        !.h = Max(Coalesce(ws[k].minH, 1), SnapToGrid(h2))]
                 resizedWidget ==
                    IF ~IsWithinBounds(sized, cols)
                    THEN [sized EXCEPT !.x = Max(0, Min(sized.x, cols - sized.w))]
                    ELSE sized
             IN  Some(ResolveCollisions(resizedWidget, ws))

\* resizeWidget(widgetId, w, h, widgets, columns); w, h in half units
ResizeWidget(widgetId, w2, h2, ws, cols) ==
    LET k == FindIndex(ws, widgetId)
    IN  IF k = 0 THEN Null
        ELSE IF ws[k].locked \/ ws[k].noResize THEN Null
        ELSE LET minW == Coalesce(ws[k].minW, 1)
                 minH == Coalesce(ws[k].minH, 1)
                 maxW == Coalesce(ws[k].maxW, cols)
                 newW == Max(minW, Min(maxW, SnapToGrid(w2)))
                 newH == IF ws[k].maxH = Undef         \* maxH ?? Infinity
                         THEN Max(minH, SnapToGrid(h2))
                         ELSE Max(minH, Min(ws[k].maxH, SnapToGrid(h2)))
                 sized == [ws[k] EXCEPT !.w = newW, !.h = newH]
                 resizedWidget ==
                    IF ~IsWithinBounds(sized, cols)
                    THEN [sized EXCEPT !.x = Max(0, Min(sized.x, cols - sized.w))]
                    ELSE sized
             IN  Some(ResolveCollisions(resizedWidget, ws))

\* excludeId ? ... : ...  -- the truthiness of an id: 0 (and '') is falsy
Truthy(id) == id # Undef /\ id # 0

\* canPlaceWidget(widget, widgets, columns, excludeId)
CanPlaceWidget(widget, ws, cols, excludeId) ==
    IF ~IsWithinBounds(widget, cols) THEN FALSE
    ELSE LET filtered == IF Truthy(excludeId)
                         THEN SelectSeq(ws, LAMBDA w : w.id # excludeId)
                         ELSE ws
         IN  ~HasCollision(widget, filtered)

----------------------------------------------------------------------------
(* IAZDashboard: the facade methods, as functions of the canonical state *)

\* compact(): state.widgets = GridEngine.compactLayout(state.widgets)
Compact(ws) == CompactLayout(ws)

\* addWidget(widget, options): the new canonical widget list, the engine's
\* colliding list and the value returned.  widget.x, widget.y are half units or
\* Undef; widget.w, widget.h are whole units or Undef.
AddWidget(widget, skipCollisions, cancel, st, opts) ==
    LET auto == opts.autoPosition /\ (widget.x = Undef \/ widget.y = Undef)
        position == FindFirstAvailablePosition(
                        [w |-> Coalesce(widget.w, DefaultW), h |-> Coalesce(widget.h, DefaultH)],
                        st.widgets, st.columns)
        x2 == IF auto THEN 2 * position.x ELSE Coalesce(widget.x, 0)
        y2 == IF auto THEN 2 * position.y ELSE Coalesce(widget.y, 0)
        newWidget == [widget EXCEPT !.x = SnapToGrid(x2),
                                    !.y = SnapToGrid(y2),
                                    !.w = SnapToGrid(2 * Coalesce(widget.w, DefaultW)),
                                    !.h = SnapToGrid(2 * Coalesce(widget.h, DefaultH))]
        pushed == Append(st.widgets, newWidget)
        colliding == IF skipCollisions THEN <<>> ELSE GetCollidingWidgets(newWidget, pushed)
        resolved == IF Len(colliding) > 0 THEN ResolveCollisions(newWidget, pushed) ELSE pushed
        final == IF opts.floatMode /\ ~opts.batchMode THEN Compact(resolved) ELSE resolved
    IN  IF cancel
        THEN [widgets |-> st.widgets, added |-> FALSE, widget |-> newWidget, colliding |-> <<>>]
        ELSE [widgets |-> final, added |-> TRUE, widget |-> newWidget, colliding |-> colliding]

\* moveWidget(id, x, y): the engine's result, the new canonical list, the value returned
DashMoveWidget(id, x2, y2, st, opts) ==
    LET result == MoveWidget(id, x2, y2, st.widgets, st.columns)
    IN  IF result.isNull
        THEN [engine |-> result, widgets |-> st.widgets, value |-> FALSE]
        ELSE [engine |-> result,
              widgets |-> IF opts.floatMode THEN Compact(result.widgets) ELSE result.widgets,
              value |-> TRUE]

\* resizeWidget(id, w, h)
DashResizeWidget(id, w2, h2, st, opts) ==
    LET result == ResizeWidget(id, w2, h2, st.widgets, st.columns)
    IN  IF result.isNull
        THEN [engine |-> result, widgets |-> st.widgets, value |-> FALSE]
        ELSE [engine |-> result,
              widgets |-> IF opts.floatMode THEN Compact(result.widgets) ELSE result.widgets,
              value |-> TRUE]

----------------------------------------------------------------------------
(* The inputs drawn *)

NoFlags == [locked |-> FALSE, noMove |-> FALSE, noResize |-> FALSE]
NoLimits == [minW |-> Undef, minH |-> Undef, maxW |-> Undef, maxH |-> Undef]

MakeWidget(id, g, f, c) ==
    [id |-> id, x |-> g.x, y |-> g.y, w |-> g.w, h |-> g.h,
     locked |-> f.locked, noMove |-> f.noMove, noResize |-> f.noResize,
     minW |-> c.minW, minH |-> c.minH, maxW |-> c.maxW, maxH |-> c.maxH]

Geoms == [x : 0..MaxX, y : 0..MaxY, w : 1..MaxSpan, h : 1..MaxSpan]
\* geometry with gaps above, for compaction
TallGeoms == [x : 0..MaxX, y : 0..(MaxY + 2), w : 1..MaxSpan, h : 1..MaxSpan]

Locked == [NoFlags EXCEPT !.locked = TRUE]
NoMove == [NoFlags EXCEPT !.noMove = TRUE]
NoResize == [NoFlags EXCEPT !.noResize = TRUE]
PinFlags == {NoFlags, Locked, NoMove}

\* minW/minH/maxW/maxH settings of a resized widget: none, a floor, a ceiling,
\* a ceiling beyond the grid, a floor above the ceiling, and zeros
Limits ==
    { NoLimits,
      [NoLimits EXCEPT !.minW = 2, !.minH = 2],
      [NoLimits EXCEPT !.maxW = 1, !.maxH = 1],
      [NoLimits EXCEPT !.minW = 1, !.maxW = MaxReq + 1, !.minH = 1, !.maxH = MaxReq + 1],
      [NoLimits EXCEPT !.minW = 2, !.maxW = 1, !.minH = 2, !.maxH = 1],
      [NoLimits EXCEPT !.minW = 0, !.minH = 0] }

\* column counts: narrower than the widest drawn widget, and wide enough for all
ColumnChoices == {MaxSpan - 1, MaxX + MaxSpan}

\* requested coordinates and spans in half units: negative, fractional, whole, beyond the grid
Requests == {-3, 1, 4, 2 * MaxReq + 1}
FewRequests == {1, 2 * MaxReq}

\* the shapes a drawn collection is built from
Shapes(G, F) == [g : G, f : F]

\* the collection of the shapes s[1..len], with the distinct ids 0..(len - 1)
Layout(s, len) == [i \in 1..len |-> MakeWidget(i - 1, s[i].g, s[i].f, NoLimits)]

Idle == [floatMode |-> FALSE, autoPosition |-> TRUE, batchMode |-> FALSE]
NoState == [columns |-> 0, widgets |-> <<>>]
NoRet == [none |-> TRUE]

\* no interaction engine and no breakpoint manager constructed
NoEngines ==
    /\ dragEngine = [isNull |-> TRUE]
    /\ resizeEngine = [isNull |-> TRUE]
    /\ breakpointManager = [isNull |-> TRUE]
    /\ window = [innerWidth |-> 0, clientWidth |-> 0]
    /\ trace = <<>>

----------------------------------------------------------------------------
(* Collision resolution: GridEngine.resolveCollisions and IAZDashboard.addWidget *)

\* resolveCollisions(movedWidget, widgets): movedWidget = {id, x, y, w, h}, the
\* widget with that id placed at row y (id = len: no such widget)
InitResolve ==
    \E len \in 0..MaxWidgets : \E s \in [1..len -> Shapes(Geoms, PinFlags)] :
      \E id \in 0..len, y \in 0..MaxY :
        /\ op = "resolveCollisions"
        /\ pc = "call"
        /\ widgets = Layout(s, len)
        /\ columns = MaxX + MaxSpan
        /\ arg = [movedWidget |->
                    [id |-> id, y |-> y,
                     x |-> IF id < len THEN s[id + 1].g.x ELSE 0,
                     w |-> IF id < len THEN s[id + 1].g.w ELSE MaxSpan,
                     h |-> IF id < len THEN s[id + 1].g.h ELSE MaxSpan]]
        /\ ret = NoRet
        /\ state = NoState
        /\ options = Idle
        /\ NoEngines

ResolveStep ==
    /\ op = "resolveCollisions" /\ pc = "call"
    /\ pc' = "done"
    /\ ret' = ResolveCollisionsRun(arg.movedWidget, widgets)
    /\ UNCHANGED <<op, widgets, columns, arg, state, options, engines>>

\* dashboard.addWidget(widget, {skipCollisions}) on a dashboard holding a collection
InitAddWidget ==
    \E len \in 0..(MaxWidgets - 1) : \E s \in [1..len -> Shapes(Geoms, {NoFlags})] :
      \E pos \in {[x |-> Undef, y |-> Undef]} \cup [x : {0, 2 * MaxX}, y : {0, 2 * MaxY - 1}],
         size \in {[w |-> Undef, h |-> Undef]} \cup [w : 1..MaxSpan, h : 1..MaxSpan],
         skip \in BOOLEAN, float \in BOOLEAN, auto \in BOOLEAN,
         mode \in {"plain", "batch", "cancel"} :
        /\ op = "addWidget"
        /\ pc = "call"
        /\ widgets = Layout(s, len)
        /\ columns = MaxX + MaxSpan
        /\ arg = [widget |-> MakeWidget(len, [x |-> pos.x, y |-> pos.y, w |-> size.w, h |-> size.h],
                                        NoFlags, NoLimits),
                  skipCollisions |-> skip,
                  cancel |-> (mode = "cancel")]
        /\ ret = NoRet
        /\ state = [columns |-> MaxX + MaxSpan, widgets |-> Layout(s, len)]
        /\ options = [floatMode |-> float, autoPosition |-> auto, batchMode |-> (mode = "batch")]
        /\ NoEngines

AddWidgetStep ==
    /\ op = "addWidget" /\ pc = "call"
    /\ pc' = "done"
    /\ ret' = AddWidget(arg.widget, arg.skipCollisions, arg.cancel, state, options)
    /\ state' = [state EXCEPT !.widgets = ret'.widgets]
    /\ UNCHANGED <<op, widgets, columns, arg, options, engines>>

\* dashboard.addWidget of B {x: 0, y: 0, w: 6, h: 3} on a 12-column dashboard
\* holding A at that rectangle, with the default options
InitAddSameRect ==
    /\ op = "addWidget"
    /\ pc = "call"
    /\ widgets = <<MakeWidget(0, [x |-> 0, y |-> 0, w |-> 6, h |-> 3], NoFlags, NoLimits)>>
    /\ columns = 12
    /\ arg = [widget |-> MakeWidget(1, [x |-> 0, y |-> 0, w |-> 6, h |-> 3], NoFlags, NoLimits),
              skipCollisions |-> FALSE,
              cancel |-> FALSE]
    /\ ret = NoRet
    /\ state = [columns |-> 12, widgets |-> widgets]
    /\ options = [floatMode |-> FALSE, autoPosition |-> TRUE, batchMode |-> FALSE]
    /\ NoEngines

InitCollide == InitResolve \/ InitAddWidget \/ InitAddSameRect

NextCollide == ResolveStep \/ AddWidgetStep

SpecCollide == InitCollide /\ [][NextCollide]_vars

----------------------------------------------------------------------------
(* Moving and resizing: IAZDashboard.moveWidget / resizeWidget, which call   *)
(* GridEngine.moveWidget / resizeWidget on the canonical state               *)

\* dashboard.moveWidget(id, x, y); id = len names no widget
InitMoveWidget ==
    \E len \in 0..(MaxWidgets - 1) : \E s \in [1..len -> Shapes(Geoms, PinFlags)] :
      \E id \in 0..len, x2 \in Requests, y2 \in FewRequests,
         cols \in ColumnChoices, float \in BOOLEAN :
        /\ op = "moveWidget"
        /\ pc = "call"
        /\ widgets = Layout(s, len)
        /\ columns = cols
        /\ arg = [id |-> id, x |-> x2, y |-> y2]
        /\ ret = NoRet
        /\ state = [columns |-> cols, widgets |-> Layout(s, len)]
        /\ options = [Idle EXCEPT !.floatMode = float]
        /\ NoEngines

MoveWidgetStep ==
    /\ op = "moveWidget" /\ pc = "call"
    /\ pc' = "done"
    /\ ret' = DashMoveWidget(arg.id, arg.x, arg.y, state, options)
    /\ state' = [state EXCEPT !.widgets = ret'.widgets]
    /\ UNCHANGED <<op, widgets, columns, arg, options, engines>>

\* the collection of the shapes s, the widget with id `id` carrying the limits c
LimitedLayout(s, len, id, c) ==
    [i \in 1..len |-> MakeWidget(i - 1, s[i].g, s[i].f, IF i - 1 = id THEN c ELSE NoLimits)]

\* dashboard.resizeWidget(id, w, h); the resized widget carries the limits c
InitResizeWidget ==
    \E len \in 0..(MaxWidgets - 1) : \E s \in [1..len -> Shapes(Geoms, {NoFlags, Locked, NoResize})] :
      \E id \in 0..len, c \in Limits, w2 \in Requests, h2 \in FewRequests,
         cols \in ColumnChoices :
        /\ op = "resizeWidget"
        /\ pc = "call"
        /\ widgets = LimitedLayout(s, len, id, c)
        /\ columns = cols
        /\ arg = [id |-> id, w |-> w2, h |-> h2]
        /\ ret = NoRet
        /\ state = [columns |-> cols, widgets |-> LimitedLayout(s, len, id, c)]
        /\ options = Idle
        /\ NoEngines

ResizeWidgetStep ==
    /\ op = "resizeWidget" /\ pc = "call"
    /\ pc' = "done"
    /\ ret' = DashResizeWidget(arg.id, arg.w, arg.h, state, options)
    /\ state' = [state EXCEPT !.widgets = ret'.widgets]
    /\ UNCHANGED <<op, widgets, columns, arg, options, engines>>

InitMove == InitMoveWidget \/ InitResizeWidget

NextMove == MoveWidgetStep \/ ResizeWidgetStep

SpecMove == InitMove /\ [][NextMove]_vars

----------------------------------------------------------------------------
(* Placement queries: checkCollision, findFirstAvailablePosition,            *)
(* compactLayout, canPlaceWidget                                             *)

Rects == [x : 0..MaxReq, y : 0..MaxReq, w : 1..MaxSpan, h : 1..MaxSpan]

\* checkCollision(a, b) and checkCollision(b, a)
InitCheckCollision ==
    \E a \in Rects, b \in Rects :
        /\ op = "checkCollision"
        /\ pc = "call"
        /\ widgets = <<>>
        /\ columns = 0
        /\ arg = [a |-> a, b |-> b]
        /\ ret = NoRet
        /\ state = NoState
        /\ options = Idle
        /\ NoEngines

CheckCollisionStep ==
    /\ op = "checkCollision" /\ pc = "call"
    /\ pc' = "done"
    /\ ret' = [ab |-> CheckCollision(arg.a, arg.b), ba |-> CheckCollision(arg.b, arg.a)]
    /\ UNCHANGED <<op, widgets, columns, arg, state, options, engines>>

\* findFirstAvailablePosition({w, h}, widgets, columns)
InitFindFirst ==
    \E len \in 0..MaxWidgets : \E s \in [1..len -> Shapes(Geoms, {NoFlags})] :
      \E w \in 1..MaxSpan, h \in 1..MaxSpan, cols \in ColumnChoices :
        /\ op = "findFirstAvailablePosition"
        /\ pc = "call"
        /\ widgets = Layout(s, len)
        /\ columns = cols
        /\ arg = [w |-> w, h |-> h]
        /\ ret = NoRet
        /\ state = NoState
        /\ options = Idle
        /\ NoEngines

FindFirstStep ==
    /\ op = "findFirstAvailablePosition" /\ pc = "call"
    /\ pc' = "done"
    /\ ret' = FindFirstAvailablePosition(arg, widgets, columns)
    /\ UNCHANGED <<op, widgets, columns, arg, state, options, engines>>

\* compactLayout(widgets), and compactLayout of its result
InitCompact ==
    \E len \in 0..MaxWidgets : \E s \in [1..len -> Shapes(TallGeoms, {NoFlags})] :
        /\ op = "compactLayout"
        /\ pc = "call"
        /\ widgets = Layout(s, len)
        /\ columns = MaxX + MaxSpan
        /\ arg = NoRet
        /\ ret = NoRet
        /\ state = NoState
        /\ options = Idle
        /\ NoEngines

CompactStep ==
    /\ op = "compactLayout" /\ pc = "call"
    /\ pc' = "done"
    /\ ret' = [once |-> CompactLayout(widgets),
               twice |-> CompactLayout(CompactLayout(widgets))]
    /\ UNCHANGED <<op, widgets, columns, arg, state, options, engines>>

\* canPlaceWidget(rect, widgets, columns, excludeId); excludeId absent, the id
\* of a widget, or an id no widget carries (len)
InitCanPlace ==
    \E len \in 0..(MaxWidgets - 1) : \E s \in [1..len -> Shapes(Geoms, {NoFlags})] :
      \E rect \in [x : 0..(MaxX + 1), y : 0..MaxY, w : 1..MaxSpan, h : 1..MaxSpan],
         excludeId \in {Undef} \cup 0..len, cols \in ColumnChoices :
        /\ op = "canPlaceWidget"
        /\ pc = "call"
        /\ widgets = Layout(s, len)
        /\ columns = cols
        /\ arg = [rect |-> rect, excludeId |-> excludeId]
        /\ ret = NoRet
        /\ state = NoState
        /\ options = Idle
        /\ NoEngines

CanPlaceStep ==
    /\ op = "canPlaceWidget" /\ pc = "call"
    /\ pc' = "done"
    /\ ret' = [value |-> CanPlaceWidget(arg.rect, widgets, columns, arg.excludeId)]
    /\ UNCHANGED <<op, widgets, columns, arg, state, options, engines>>

InitPlace == InitCheckCollision \/ InitFindFirst \/ InitCompact \/ InitCanPlace

NextPlace == CheckCollisionStep \/ FindFirstStep \/ CompactStep \/ CanPlaceStep

SpecPlace == InitPlace /\ [][NextPlace]_vars

----------------------------------------------------------------------------
(* Properties *)

Done(o) == op = o /\ pc = "done"

Indices(ws) == 1..Len(ws)

\* the widget is locked or noMove
Pinned(w) == w.locked \/ w.noMove

\* the place of the moved widget in the collection passed, 0 when it is not in it
MovedAt ==
    IF \E i \in Indices(widgets) : widgets[i].id = arg.movedWidget.id
    THEN CHOOSE i \in Indices(widgets) : widgets[i].id = arg.movedWidget.id
    ELSE 0

\* the two rectangles share a cell
Overlap(a, b) ==
    /\ a.x < b.x + b.w /\ b.x < a.x + a.w
    /\ a.y < b.y + b.h /\ b.y < a.y + a.h

\* no two widgets of ws overlap unless both are pinned
NoMovableCollision(ws) ==
    \A i, j \in Indices(ws) :
        (i < j /\ Overlap(ws[i], ws[j])) => (Pinned(ws[i]) /\ Pinned(ws[j]))

\* C1 as stated: resolveCollisions leaves the y of every locked or noMove widget
\* of the collection as it was, the moved widget included.
C1_PinnedKeepY ==
    Done("resolveCollisions") =>
        \A i \in Indices(widgets) :
            Pinned(widgets[i]) => ret.widgets[i].y = widgets[i].y

\* C1 amended: resolveCollisions leaves the y of every locked or noMove widget
\* other than the moved widget as it was; the moved widget takes the y given.
C1_PinnedOthersKeepY ==
    Done("resolveCollisions") =>
        \A i \in Indices(widgets) :
            (Pinned(widgets[i]) /\ i # MovedAt) => ret.widgets[i].y = widgets[i].y

\* a pinned widget under the moved widget stayed, and the moved widget was pushed below it
C1_Witness ==
    /\ Done("resolveCollisions")
    /\ MovedAt # 0
    /\ \E i \in Indices(widgets) :
          /\ i # MovedAt
          /\ Pinned(widgets[i])
          /\ Overlap(widgets[i], arg.movedWidget)
          /\ ret.widgets[i].y = widgets[i].y
          /\ ret.widgets[MovedAt].y >= widgets[i].y + widgets[i].h

\* the end-to-end scenario of C2: a dashboard holding one widget A at row 0, and
\* B added at the same rectangle
SameRectAdded ==
    /\ Done("addWidget")
    /\ Len(widgets) = 1
    /\ widgets[1].y = 0
    /\ arg.widget.x = 2 * widgets[1].x /\ arg.widget.y = 0
    /\ arg.widget.w = widgets[1].w /\ arg.widget.h = widgets[1].h
    /\ ~arg.skipCollisions /\ ~arg.cancel

OneStaysOneBelow ==
    /\ Len(state.widgets) = 2
    /\ {w.id : w \in {state.widgets[i] : i \in 1..2}} = {0, 1}
    /\ {w.y : w \in {state.widgets[i] : i \in 1..2}} = {0, widgets[1].h}
    /\ NoMovableCollision(state.widgets)

\* C2 as stated: the collection returned by resolveCollisions has no colliding
\* pair with a movable widget in it, for every collection and moved widget; and
\* adding B on top of A leaves one of them at y = 0 and the other right below.
C2_NoCollisionLeft ==
    /\ Done("resolveCollisions") => NoMovableCollision(ret.widgets)
    /\ SameRectAdded => OneStaysOneBelow
    /\ (Done("addWidget") /\ columns = 12) => {state.widgets[i].y : i \in 1..2} = {0, 3}

\* C2 amended: the same, for a moved widget whose id is in the collection (the
\* ids being distinct) and a push-down loop that ended before its cap.
C2_NoCollisionLeftWhenMovedPresent ==
    /\ (Done("resolveCollisions") /\ MovedAt # 0 /\ ret.iterations < maxIterations)
          => NoMovableCollision(ret.widgets)
    /\ SameRectAdded => OneStaysOneBelow
    /\ (Done("addWidget") /\ columns = 12) => {state.widgets[i].y : i \in 1..2} = {0, 3}

\* a collection with overlapping widgets came back with them pushed apart, in
\* more than one pass
C2_Witness ==
    /\ Done("resolveCollisions")
    /\ MovedAt # 0
    /\ ~NoMovableCollision(widgets)
    /\ ret.iterations > 2
    /\ NoMovableCollision(ret.widgets)

\* C3: the moved widget comes back from resolveCollisions with exactly the
\* geometry passed for it.
C3_MovedKeepsGeometry ==
    (Done("resolveCollisions") /\ MovedAt # 0) =>
        /\ ret.widgets[MovedAt].x = arg.movedWidget.x
        /\ ret.widgets[MovedAt].y = arg.movedWidget.y
        /\ ret.widgets[MovedAt].w = arg.movedWidget.w
        /\ ret.widgets[MovedAt].h = arg.movedWidget.h

\* the place of the widget named by arg.id in the collection passed, 0 when none
TargetAt ==
    IF \E i \in Indices(widgets) : widgets[i].id = arg.id
    THEN CHOOSE i \in Indices(widgets) : widgets[i].id = arg.id
    ELSE 0

\* the widget named by arg.id, in the collection GridEngine returned
Target == ret.engine.widgets[TargetAt]

MoveForbidden ==
    TargetAt = 0 \/ widgets[TargetAt].locked \/ widgets[TargetAt].noMove

ResizeForbidden ==
    TargetAt = 0 \/ widgets[TargetAt].locked \/ widgets[TargetAt].noResize

\* C4: GridEngine.moveWidget returns null for a missing, locked or noMove
\* widget and GridEngine.resizeWidget for a missing, locked or noResize one;
\* the dashboard then returns false and its widget list is what it was.
C4_NullWhenForbidden ==
    /\ (Done("moveWidget") /\ MoveForbidden) =>
          (ret.engine.isNull /\ ret.value = FALSE /\ state.widgets = widgets)
    /\ (Done("resizeWidget") /\ ResizeForbidden) =>
          (ret.engine.isNull /\ ret.value = FALSE /\ state.widgets = widgets)

\* a noMove widget lying on another one was asked to move elsewhere, and nothing moved
C4_Witness ==
    /\ Done("moveWidget")
    /\ TargetAt # 0
    /\ widgets[TargetAt].noMove /\ ~widgets[TargetAt].locked
    /\ SnapToGrid(arg.x) # widgets[TargetAt].x
    /\ ~NoMovableCollision(widgets)
    /\ ret.value = FALSE
    /\ state.widgets = widgets

\* C5 as stated: the moved or resized widget ends with 0 <= x <= columns - w.
C5_XWithinGrid ==
    ((Done("moveWidget") \/ Done("resizeWidget")) /\ ~ret.engine.isNull) =>
        (0 <= Target.x /\ Target.x <= columns - Target.w)

\* C5 amended: it ends with 0 <= x <= columns - w when its resulting width fits
\* the grid (w <= columns), and with x = 0 when it is wider than the grid.
C5_XWithinGridWhenFits ==
    ((Done("moveWidget") \/ Done("resizeWidget")) /\ ~ret.engine.isNull) =>
        /\ Target.w <= columns => (0 <= Target.x /\ Target.x <= columns - Target.w)
        /\ Target.w > columns => Target.x = 0

\* a move beyond the right edge ended flush with it
C5_Witness ==
    /\ Done("moveWidget")
    /\ ~ret.engine.isNull
    /\ arg.x > 2 * (columns - Target.w)
    /\ Target.w < columns
    /\ Target.x = columns - Target.w

\* the limits of the resized widget
LoW == IF widgets[TargetAt].minW = Undef THEN 1 ELSE widgets[TargetAt].minW
HiW == IF widgets[TargetAt].maxW = Undef THEN columns ELSE widgets[TargetAt].maxW
LoH == IF widgets[TargetAt].minH = Undef THEN 1 ELSE widgets[TargetAt].minH
HasHiH == widgets[TargetAt].maxH # Undef
HiH == widgets[TargetAt].maxH

\* the request r2 (half units) lies in [lo, hi]
Within(r2, lo, hi) == 2 * lo <= r2 /\ r2 <= 2 * hi

\* the whole number nearest to the request r2 (half units), halves going up
Nearest(r2) == CHOOSE n \in -(MaxReq + 2)..(MaxReq + 2) : 2 * n - 1 <= r2 /\ r2 < 2 * n + 1

\* C6 as stated: the resized width lies in [minW ?? 1, maxW ?? columns], the
\* height in [minH ?? 1, maxH ?? unbounded], and a request inside those
\* intervals is applied unchanged.
C6_SizeWithinLimits ==
    (Done("resizeWidget") /\ ~ret.engine.isNull) =>
        /\ LoW <= Target.w /\ Target.w <= HiW
        /\ LoH <= Target.h /\ (HasHiH => Target.h <= HiH)
        /\ Within(arg.w, LoW, HiW) => 2 * Target.w = arg.w
        /\ (Within(arg.h, LoH, arg.h) /\ (HasHiH => Within(arg.h, LoH, HiH)))
              => 2 * Target.h = arg.h

\* C6 amended: that holds when the lower limit does not exceed the upper one;
\* when it does, the lower limit wins; and a request inside the interval is
\* applied rounded to the nearest whole number, so unchanged when it is whole.
C6_SizeWithinOrderedLimits ==
    (Done("resizeWidget") /\ ~ret.engine.isNull) =>
        /\ LoW <= HiW => (LoW <= Target.w /\ Target.w <= HiW)
        /\ LoW > HiW => Target.w = LoW
        /\ (~HasHiH \/ LoH <= HiH) => (LoH <= Target.h /\ (HasHiH => Target.h <= HiH))
        /\ (HasHiH /\ LoH > HiH) => Target.h = LoH
        /\ Within(arg.w, LoW, HiW) => Target.w = Nearest(arg.w)
        /\ (Within(arg.h, LoH, arg.h) /\ (HasHiH => Within(arg.h, LoH, HiH)))
              => Target.h = Nearest(arg.h)

\* a width beyond maxW was requested and the widget got maxW
C6_Witness ==
    /\ Done("resizeWidget")
    /\ ~ret.engine.isNull
    /\ widgets[TargetAt].maxW # Undef
    /\ LoW <= HiW
    /\ arg.w > 2 * HiW
    /\ Target.w = HiW
    /\ Target.w # widgets[TargetAt].w

\* the two rectangles touch on an edge
Touching(a, b) ==
    \/ a.x + a.w = b.x \/ b.x + b.w = a.x
    \/ a.y + a.h = b.y \/ b.y + b.h = a.y

\* C7: checkCollision(a, b) = checkCollision(b, a), and rectangles that only
\* touch on an edge do not collide.
C7_SymmetricExclusive ==
    Done("checkCollision") =>
        /\ ret.ab = ret.ba
        /\ Touching(arg.a, arg.b) => ~ret.ab

\* side by side in the same rows, sharing an edge, and not colliding
C7_Witness ==
    /\ Done("checkCollision")
    /\ arg.a.x + arg.a.w = arg.b.x
    /\ arg.a.y = arg.b.y
    /\ ~ret.ab /\ ~ret.ba

\* the cell (x, y) is free for the size asked
FreeAt(x, y) ==
    \A i \in Indices(widgets) :
        ~Overlap([x |-> x, y |-> y, w |-> arg.w, h |-> arg.h], widgets[i])

\* the lowest occupied row boundary
Bottom ==
    CHOOSE b \in {0} \cup {widgets[i].y + widgets[i].h : i \in Indices(widgets)} :
        \A i \in Indices(widgets) : widgets[i].y + widgets[i].h <= b

\* C8: findFirstAvailablePosition returns the first free cell in row-major
\* order when the size fits the grid, and (0, getBottomY) when it is wider.
C8_FirstFreeRowMajor ==
    Done("findFirstAvailablePosition") =>
        /\ arg.w <= columns =>
              /\ 0 <= ret.x /\ ret.x <= columns - arg.w /\ ret.y >= 0
              /\ FreeAt(ret.x, ret.y)
              /\ \A y \in 0..ret.y, x \in 0..(columns - arg.w) :
                    (y < ret.y \/ x < ret.x) => ~FreeAt(x, y)
              /\ Len(widgets) = 0 => (ret.x = 0 /\ ret.y = 0)
        /\ arg.w > columns => (ret.x = 0 /\ ret.y = Bottom)

\* the first row was full up to a free cell further right
C8_Witness ==
    /\ Done("findFirstAvailablePosition")
    /\ arg.w <= columns
    /\ ret.x > 0 /\ ret.y = 0
    /\ FreeAt(0, 1)

\* the widgets of a collection, whatever their order
Range(ws) == {ws[i] : i \in Indices(ws)}

\* C9 as stated: compactLayout(compactLayout(L)) = compactLayout(L), widget for
\* widget, also for collections with overlapping widgets.
C9_CompactIdempotent ==
    Done("compactLayout") => ret.twice = ret.once

\* C9 amended: the second compaction moves no widget: it returns the same
\* widgets at the same places (also for collections with overlapping widgets),
\* in an order that may differ from the first compaction's.
C9_CompactIdempotentUpToOrder ==
    Done("compactLayout") =>
        /\ Len(ret.twice) = Len(ret.once)
        /\ Range(ret.twice) = Range(ret.once)
        /\ ret.twice = SortWidgets(ret.once)

\* a collection with overlapping widgets was compacted, a widget moving up two rows or more
C9_Witness ==
    /\ Done("compactLayout")
    /\ ~NoMovableCollision(widgets)
    /\ \E i \in Indices(widgets), j \in Indices(ret.once) :
          ret.once[j].id = widgets[i].id /\ ret.once[j].y + 2 <= widgets[i].y
    /\ ret.twice # ret.once

\* C10: canPlaceWidget is true exactly when the rectangle is within bounds and
\* collides with no widget other than the one whose id is excludeId, whatever
\* the id (the number 0 included).
C10_CanPlaceExact ==
    Done("canPlaceWidget") =>
        (ret.value <=>
            /\ arg.rect.x >= 0 /\ arg.rect.y >= 0 /\ arg.rect.x + arg.rect.w <= columns
            /\ \A i \in Indices(widgets) :
                  widgets[i].id # arg.excludeId => ~Overlap(arg.rect, widgets[i]))

\* C33: the push-down loop of resolveCollisions ends with a pass that changed
\* nothing, strictly before its cap of maxIterations passes
C33_SettlesBeforeCap ==
    (Done("resolveCollisions") /\ MovedAt # 0) =>
        /\ ret.iterations >= 1
        /\ ret.iterations < maxIterations
        /\ ~PushPass(ret.widgets, 1, FALSE).hasChanges

\* two widgets other than the moved one were pushed, in three passes
C33_Witness ==
    /\ Done("resolveCollisions")
    /\ MovedAt # 0
    /\ ret.iterations = 3
    /\ Cardinality({i \in Indices(widgets) : i # MovedAt /\ ret.widgets[i].y > widgets[i].y}) >= 2

\* C34: resolveCollisions returns the same widgets in the same order; every
\* widget other than the moved one keeps all its fields but y, and its y is
\* not less than it was; with the moved id not in the collection the result is
\* the input
C34_OnlyPushedDown ==
    Done("resolveCollisions") =>
        /\ Len(ret.widgets) = Len(widgets)
        /\ \A i \in Indices(widgets) :
              /\ ret.widgets[i].id = widgets[i].id
              /\ i # MovedAt =>
                    /\ [ret.widgets[i] EXCEPT !.y = widgets[i].y] = widgets[i]
                    /\ ret.widgets[i].y >= widgets[i].y
        /\ MovedAt = 0 => ret.widgets = widgets

\* a widget listed before the moved one and one listed after it were pushed down
C34_Witness ==
    /\ Done("resolveCollisions")
    /\ MovedAt # 0
    /\ \E i, j \in Indices(widgets) :
          /\ i < MovedAt /\ MovedAt < j
          /\ ret.widgets[i].y > widgets[i].y
          /\ ret.widgets[j].y > widgets[j].y

\* no two widgets of ws overlap
NoCollision(ws) ==
    \A i, j \in Indices(ws) : i < j => ~Overlap(ws[i], ws[j])

\* the widget at j of ws is at row 0, or one row up it would overlap another
Rests(ws, j) ==
    \/ ws[j].y = 0
    \/ \E k \in Indices(ws) : k # j /\ Overlap([ws[j] EXCEPT !.y = @ - 1], ws[k])

\* C35: compactLayout returns the same widgets, each with the fields it had
\* but y, at a row not below the one it had and not above row 0; and when no
\* two widgets of the input overlap, none of the result do and none of them
\* can go up one row
C35_CompactOnlyUp ==
    Done("compactLayout") =>
        /\ Len(ret.once) = Len(widgets)
        /\ \A i \in Indices(widgets) :
              \E j \in Indices(ret.once) :
                  /\ [ret.once[j] EXCEPT !.y = widgets[i].y] = widgets[i]
                  /\ ret.once[j].y <= widgets[i].y
                  /\ ret.once[j].y >= 0
        /\ NoCollision(widgets) =>
              /\ NoCollision(ret.once)
              /\ \A j \in Indices(ret.once) : Rests(ret.once, j)

\* a collection with no overlap was compacted: a widget went up two rows or
\* more and came to rest under another
C35_Witness ==
    /\ Done("compactLayout")
    /\ NoCollision(widgets)
    /\ \E i \in Indices(widgets), j \in Indices(ret.once) :
          /\ ret.once[j].id = widgets[i].id
          /\ ret.once[j].y + 2 <= widgets[i].y
          /\ ret.once[j].y > 0

----------------------------------------------------------------------------
(* Interaction sessions: DragEngine and ResizeEngine (src/src/core/DragEngine.ts, *)
(* src/src/core/ResizeEngine.ts) over the dashboard's canonical state.            *)
(* Pointer coordinates are in half column widths / half row pitches, the grid     *)
(* element's corner at (0, 0); a widget element is rendered at its widget's       *)
(* (x, y) (src/src/dom/render.ts).                                                *)

\* JSON.parse(JSON.stringify(widget)): numbers, booleans and strings come back as
\* they are, absent fields stay absent, an HTMLElement content comes back as {}
JsonWidget(w) ==
    IF "content" \in DOMAIN w /\ w.content = "element"
    THEN [w EXCEPT !.content = "object"]
    ELSE w

\* JSON.parse(JSON.stringify(layout))
JsonClone(ws) == [i \in 1..Len(ws) |-> JsonWidget(ws[i])]

\* IAZDashboard.getState(): a JSON copy of the canonical state
GetState(st) == [st EXCEPT !.widgets = JsonClone(st.widgets)]

\* the setState callback the dashboard hands to both engines
SetState(s, opts) ==
    [s EXCEPT !.widgets = IF opts.floatMode THEN Compact(s.widgets) ELSE s.widgets]

\* a notification: its name, the id of the widget passed, and the moved/resized
\* flag of an end notification (FALSE for the notifications that carry none)
Emit(event, id, flag) == [event |-> event, id |-> id, flag |-> flag, x |-> Undef, y |-> Undef]

\* a drag notification, whose payload also carries a position {x, y}
EmitAt(event, id, flag, x, y) == [event |-> event, id |-> id, flag |-> flag, x |-> x, y |-> y]

NoSession == [isNull |-> TRUE]

\* what a call did: the notifications it emitted and the widget lists it passed to setState
Effects(emitted, written) == [emitted |-> emitted, setState |-> written]
NoEffects == Effects(<<>>, <<>>)

\* (mutant: the noMove flag forgotten)
CanDragIgnoringNoMove(widgetId, st) ==
    LET ws == GetState(st).widgets
        k == FindIndex(ws, widgetId)
    IN  IF k = 0 THEN FALSE ELSE ~ws[k].locked

\* canDrag(widgetId)
CanDrag(widgetId, st) ==
    LET ws == GetState(st).widgets
        k == FindIndex(ws, widgetId)
    IN  IF k = 0 THEN FALSE ELSE ~ws[k].locked /\ ~ws[k].noMove

\* startDrag(widgetId, pointerX, pointerY, widgetElement): the session it
\* creates, the value returned and its effects
StartDrag(widgetId, pointerX, pointerY, engine, st) ==
    IF ~CanDrag(widgetId, st)
    THEN [engine |-> engine, value |-> FALSE, effects |-> NoEffects]
    ELSE LET ws == GetState(st).widgets
             widget == ws[FindIndex(ws, widgetId)]
         IN  [engine |-> [isNull |-> FALSE,
                          widgetId |-> widgetId,
                          widget |-> widget,
                          startPointerX |-> pointerX,
                          startPointerY |-> pointerY,
                          startWidgetX |-> widget.x,
                          startWidgetY |-> widget.y,
                          currentGridX |-> widget.x,
                          currentGridY |-> widget.y,
                          offsetX |-> pointerX - 2 * widget.x,
                          offsetY |-> pointerY - 2 * widget.y,
                          isDragging |-> TRUE],
              value |-> TRUE,
              effects |-> Effects(<<Emit("interaction:start", widgetId, FALSE),
                                    EmitAt("drag:start", widgetId, FALSE, widget.x, widget.y)>>,
                                  <<>>)]

\* isDragging()
IsDragging(engine) == ~engine.isNull /\ engine.isDragging

\* (mutant: the preview position written through to the canonical state)
UpdateDragCommitting(pointerX, pointerY, engine, cols) ==
    [engine |-> engine,
     effects |-> Effects(<<>>, <<<<>>>>)]

\* (mutant: no clamp into the grid)
ScreenToGridNoClamp(pixelX, pixelY, w, cols) ==
    [gridX |-> MathRound(pixelX), gridY |-> MathRound(pixelY)]

\* screenToGrid(pixelX, pixelY) for a dragged widget of width w
ScreenToGrid(pixelX, pixelY, w, cols) ==
    [gridX |-> Max(0, Min(MathRound(pixelX), cols - w)),
     gridY |-> Max(0, MathRound(pixelY))]

\* updateDrag(pointerX, pointerY)
UpdateDrag(pointerX, pointerY, engine, cols) ==
    IF ~IsDragging(engine)
    THEN [engine |-> engine, effects |-> NoEffects]
    ELSE LET grid == ScreenToGrid(pointerX - engine.offsetX, pointerY - engine.offsetY,
                                  engine.widget.w, cols)
         IN  [engine |-> [engine EXCEPT !.currentGridX = grid.gridX,
                                        !.currentGridY = grid.gridY],
              effects |-> Effects(<<EmitAt("drag:move", engine.widgetId, FALSE,
                                           grid.gridX, grid.gridY)>>, <<>>)]

\* (mutant: the commit made without looking whether the position changed)
EndDragAlwaysCommits(engine, st, cols) ==
    IF ~IsDragging(engine)
    THEN [engine |-> engine, value |-> FALSE, effects |-> NoEffects]
    ELSE LET result == MoveWidget(engine.widgetId, 2 * engine.currentGridX,
                                  2 * engine.currentGridY, GetState(st).widgets, cols)
         IN  [engine |-> NoSession, value |-> TRUE,
              effects |-> IF result.isNull THEN NoEffects
                          ELSE Effects(<<EmitAt("drag:end", engine.widgetId, TRUE,
                                                engine.currentGridX, engine.currentGridY),
                                         Emit("interaction:end", engine.widgetId, TRUE)>>,
                                       <<result.widgets>>)]

\* endDrag()
EndDrag(engine, st, cols) ==
    IF ~IsDragging(engine)
    THEN [engine |-> engine, value |-> FALSE, effects |-> NoEffects]
    ELSE LET moved == \/ engine.currentGridX # engine.startWidgetX
                      \/ engine.currentGridY # engine.startWidgetY
             result == MoveWidget(engine.widgetId, 2 * engine.currentGridX,
                                  2 * engine.currentGridY, GetState(st).widgets, cols)
         IN  IF ~moved
             THEN [engine |-> NoSession, value |-> FALSE,
                   effects |-> Effects(<<EmitAt("drag:end", engine.widgetId, FALSE,
                                             engine.currentGridX, engine.currentGridY),
                                         Emit("interaction:end", engine.widgetId, FALSE)>>, <<>>)]
             ELSE [engine |-> NoSession, value |-> TRUE,
                   effects |-> IF result.isNull THEN NoEffects
                               ELSE Effects(<<EmitAt("drag:end", engine.widgetId, TRUE,
                                                engine.currentGridX, engine.currentGridY),
                                              Emit("interaction:end", engine.widgetId, TRUE)>>,
                                            <<result.widgets>>)]

\* (mutant: the session kept after a cancel)
CancelDragKeepingSession(engine) ==
    IF ~IsDragging(engine)
    THEN [engine |-> engine, effects |-> NoEffects]
    ELSE [engine |-> engine,
          effects |-> Effects(<<Emit("drag:cancel", engine.widgetId, FALSE)>>, <<>>)]

\* cancelDrag()
CancelDrag(engine) ==
    IF ~IsDragging(engine)
    THEN [engine |-> engine, effects |-> NoEffects]
    ELSE [engine |-> NoSession,
          effects |-> Effects(<<Emit("drag:cancel", engine.widgetId, FALSE)>>, <<>>)]

\* isResizing()
IsResizing(engine) == ~engine.isNull /\ engine.isResizing

\* canResize(widgetId)
CanResize(widgetId, st) ==
    LET ws == GetState(st).widgets
        k == FindIndex(ws, widgetId)
    IN  IF k = 0 THEN FALSE ELSE ~ws[k].locked /\ ~ws[k].noResize

\* startResize(widgetId, handle, pointerX, pointerY, widgetElement)
StartResize(widgetId, handle, pointerX, pointerY, engine, st) ==
    IF ~CanResize(widgetId, st)
    THEN [engine |-> engine, value |-> FALSE, effects |-> NoEffects]
    ELSE LET ws == GetState(st).widgets
             widget == ws[FindIndex(ws, widgetId)]
         IN  [engine |-> [isNull |-> FALSE,
                          widgetId |-> widgetId,
                          widget |-> widget,
                          handle |-> handle,
                          startPointerX |-> pointerX,
                          startPointerY |-> pointerY,
                          startWidgetX |-> widget.x,
                          startWidgetY |-> widget.y,
                          startWidgetW |-> widget.w,
                          startWidgetH |-> widget.h,
                          currentW |-> widget.w,
                          currentH |-> widget.h,
                          currentX |-> widget.x,
                          currentY |-> widget.y,
                          isResizing |-> TRUE],
              value |-> TRUE,
              effects |-> Effects(<<Emit("interaction:start", widgetId, FALSE),
                                    Emit("resize:start", widgetId, FALSE)>>, <<>>)]

\* handle.includes('w')
IncludesW(handle) == handle \in {"sw", "nw", "w"}

\* the switch of updateResize: the raw rectangle for the handle and the grid deltas
ApplyHandle(handle, x, y, w, h, dW, dH) ==
    CASE handle = "se" -> [x |-> x, y |-> y, w |-> w + dW, h |-> h + dH]
      [] handle = "sw" -> [x |-> x + dW, y |-> y, w |-> w - dW, h |-> h + dH]
      [] handle = "ne" -> [x |-> x, y |-> y + dH, w |-> w + dW, h |-> h - dH]
      [] handle = "nw" -> [x |-> x + dW, y |-> y + dH, w |-> w - dW, h |-> h - dH]
      [] handle = "e" -> [x |-> x, y |-> y, w |-> w + dW, h |-> h]
      [] handle = "w" -> [x |-> x + dW, y |-> y, w |-> w - dW, h |-> h]
      [] handle = "s" -> [x |-> x, y |-> y, w |-> w, h |-> h + dH]
      [] handle = "n" -> [x |-> x, y |-> y + dH, w |-> w, h |-> h - dH]

\* (mutant: maxW and maxH not applied)
ConstrainNoMax(raw, widget, handle, cols) ==
    [raw EXCEPT !.w = Max(Coalesce(widget.minW, 1), raw.w),
                !.h = Max(Coalesce(widget.minH, 1), raw.h)]

\* (mutant: the right edge of the grid is not enforced)
ConstrainNoEdge(raw, widget, handle, cols) ==
    [x |-> Max(0, raw.x), y |-> Max(0, raw.y),
     w |-> Max(Coalesce(widget.minW, 1), Min(Coalesce(widget.maxW, cols), raw.w)),
     h |-> IF widget.maxH = Undef THEN Max(Coalesce(widget.minH, 1), raw.h)
           ELSE Max(Coalesce(widget.minH, 1), Min(widget.maxH, raw.h))]

\* the constraints of updateResize: min/max, then the grid's right edge, then
\* no negative position
Constrain(raw, widget, handle, cols) ==
    LET minW == Coalesce(widget.minW, 1)
        minH == Coalesce(widget.minH, 1)
        maxW == Coalesce(widget.maxW, cols)
        newW == Max(minW, Min(maxW, raw.w))
        newH == IF widget.maxH = Undef THEN Max(minH, raw.h)
                ELSE Max(minH, Min(widget.maxH, raw.h))
        over == raw.x + newW > cols
        edgeX == IF over /\ IncludesW(handle) THEN cols - newW ELSE raw.x
        edgeW == IF over /\ ~IncludesW(handle) THEN cols - raw.x ELSE newW
    IN  [x |-> Max(0, edgeX), y |-> Max(0, raw.y), w |-> edgeW, h |-> newH]

\* updateResize(pointerX, pointerY)
UpdateResize(pointerX, pointerY, engine, cols) ==
    IF ~IsResizing(engine)
    THEN [engine |-> engine, effects |-> NoEffects]
    ELSE LET deltaGridW == MathRound(pointerX - engine.startPointerX)
             deltaGridH == MathRound(pointerY - engine.startPointerY)
             raw == ApplyHandle(engine.handle, engine.startWidgetX, engine.startWidgetY,
                                engine.startWidgetW, engine.startWidgetH,
                                deltaGridW, deltaGridH)
             new == Constrain(raw, engine.widget, engine.handle, cols)
         IN  [engine |-> [engine EXCEPT !.currentW = new.w, !.currentH = new.h,
                                        !.currentX = new.x, !.currentY = new.y],
              effects |-> Effects(<<Emit("resize:move", engine.widgetId, FALSE)>>, <<>>)]

\* endResize()
EndResize(engine, st) ==
    IF ~IsResizing(engine)
    THEN [engine |-> engine, value |-> FALSE, effects |-> NoEffects]
    ELSE LET sizeChanged == \/ engine.currentW # engine.startWidgetW
                            \/ engine.currentH # engine.startWidgetH
             positionChanged == \/ engine.currentX # engine.startWidgetX
                                \/ engine.currentY # engine.startWidgetY
             result == GetState(st).widgets
             k == FindIndex(result, engine.widgetId)
             resized == [result[k] EXCEPT !.x = engine.currentX, !.y = engine.currentY,
                                          !.w = engine.currentW, !.h = engine.currentH]
         IN  IF ~(sizeChanged \/ positionChanged)
             THEN [engine |-> NoSession, value |-> FALSE,
                   effects |-> Effects(<<Emit("resize:end", engine.widgetId, FALSE),
                                         Emit("interaction:end", engine.widgetId, FALSE)>>, <<>>)]
             ELSE [engine |-> NoSession, value |-> TRUE,
                   effects |-> IF k = 0 THEN NoEffects
                               ELSE Effects(<<Emit("resize:end", engine.widgetId, TRUE),
                                              Emit("interaction:end", engine.widgetId, TRUE)>>,
                                            <<ResolveCollisions(resized,
                                                  [result EXCEPT ![k] = resized])>>)]

\* cancelResize()
CancelResize(engine) ==
    IF ~IsResizing(engine)
    THEN [engine |-> engine, effects |-> NoEffects]
    ELSE [engine |-> NoSession,
          effects |-> Effects(<<Emit("resize:cancel", engine.widgetId, FALSE)>>, <<>>)]

\* updateWidget(id, patch): Object.assign on the canonical widget
UpdateWidget(id, patch, st) ==
    LET k == FindIndex(st.widgets, id)
    IN  IF k = 0 THEN st
        ELSE [st EXCEPT !.widgets[k] = ObjectAssign(st.widgets[k], patch)]

\* the sequence s without its k-th element
Splice(s, k) == [i \in 1..(Len(s) - 1) |-> IF i < k THEN s[i] ELSE s[i + 1]]

\* removeWidget(id)
RemoveWidget(id, st, opts) ==
    LET k == FindIndex(st.widgets, id)
        left == Splice(st.widgets, k)
    IN  IF k = 0 THEN st
        ELSE [st EXCEPT !.widgets = IF opts.floatMode THEN Compact(left) ELSE left]

----------------------------------------------------------------------------
(* The session specification: one engine, constructed over a dashboard, is     *)
(* driven through its public methods while the dashboard's own methods change  *)
(* the canonical state in between.                                              *)

\* what is remembered of the engine's latest session: the canonical widgets when
\* it started, the setState calls made in it, the update calls made in it,
\* whether the pointer is where the session started, whether the dashboard's own
\* methods changed the canonical state meanwhile, and the resize handle taken
NoHistory ==
    [atStart |-> <<>>, writes |-> 0, updates |-> 0, home |-> TRUE, foreign |-> FALSE,
     handle |-> "none"]

\* the dragged / resized widget, and the other widget of the dashboard
SessionGeoms == [x : 0..MaxX, y : {0}, w : 1..MaxSpan, h : {1}]
OtherGeoms == [x : {MaxX}, y : 0..MaxY, w : {1}, h : {1}]
Others == {<<>>} \cup {<<MakeWidget(1, o, NoFlags, NoLimits)>> : o \in OtherGeoms}

\* flags and limits of a resized widget: none, locked, noResize, noMove,
\* floors, ceilings, and a floor above the ceiling
ResizeProfiles ==
    { [f |-> NoFlags, c |-> NoLimits],
      [f |-> Locked, c |-> NoLimits],
      [f |-> NoResize, c |-> NoLimits],
      [f |-> NoMove, c |-> NoLimits],
      [f |-> NoFlags, c |-> [NoLimits EXCEPT !.minW = 2, !.minH = 2]],
      [f |-> NoFlags, c |-> [NoLimits EXCEPT !.maxW = 1, !.maxH = 1]],
      [f |-> NoFlags, c |-> [NoLimits EXCEPT !.minW = 2, !.maxW = 1, !.minH = 2, !.maxH = 1]] }

\* pointer positions, in half units: where a session starts, and where it goes
StartPointers == [x : {4}, y : {2}]
MovePointers == [x : {1, 4, 7}, y : {0, 2, 5}]
\* on the 12-column grid: six columns to the right of the start
FarPointers == [x : {16}, y : {2}]
Pointers == IF columns = 12 THEN FarPointers ELSE MovePointers
Handles == {"se", "sw", "ne", "nw", "e", "w", "s", "n"}

\* new DragEngine(getState, setState, emit, ...) over a dashboard of one or two
\* widgets (ids 0 and 1)
InitDragEngine ==
    \E g \in SessionGeoms, f \in PinFlags, others \in Others,
       cols \in ColumnChoices, float \in BOOLEAN :
        /\ op = "new DragEngine"
        /\ pc = "done"
        /\ widgets = <<MakeWidget(0, g, f, NoLimits)>> \o others
        /\ columns = cols
        /\ arg = Idle
        /\ ret = NoRet
        /\ state = [columns |-> cols, widgets |-> widgets]
        /\ options = [Idle EXCEPT !.floatMode = float]
        /\ dragEngine = NoSession
        /\ resizeEngine = NoSession
        /\ breakpointManager = [isNull |-> TRUE]
        /\ window = [innerWidth |-> 0, clientWidth |-> 0]
        /\ trace = [engine |-> "DragEngine", calls |-> 0, last |-> NoEffects,
                    session |-> NoHistory]

\* new ResizeEngine(getState, setState, emit, ...) over a dashboard of one widget
InitResizeEngine ==
    \E g \in SessionGeoms, p \in ResizeProfiles, cols \in ColumnChoices :
        /\ op = "new ResizeEngine"
        /\ pc = "done"
        /\ widgets = <<MakeWidget(0, g, p.f, p.c)>>
        /\ columns = cols
        /\ arg = Idle
        /\ ret = NoRet
        /\ state = [columns |-> cols, widgets |-> widgets]
        /\ options = Idle
        /\ dragEngine = NoSession
        /\ resizeEngine = NoSession
        /\ breakpointManager = [isNull |-> TRUE]
        /\ window = [innerWidth |-> 0, clientWidth |-> 0]
        /\ trace = [engine |-> "ResizeEngine", calls |-> 0, last |-> NoEffects,
                    session |-> NoHistory]

\* new ResizeEngine over the 12-column dashboard of the resize tests: widget
\* {x: 4, y: 0, w: 4, h: 3, minW: 2, minH: 2, maxW: 6, maxH: 4}
InitResizeLimited ==
    /\ op = "new ResizeEngine"
    /\ pc = "done"
    /\ widgets = <<MakeWidget(0, [x |-> 4, y |-> 0, w |-> 4, h |-> 3], NoFlags,
                              [minW |-> 2, minH |-> 2, maxW |-> 6, maxH |-> 4])>>
    /\ columns = 12
    /\ arg = Idle
    /\ ret = NoRet
    /\ state = [columns |-> 12, widgets |-> widgets]
    /\ options = Idle
    /\ dragEngine = NoSession
    /\ resizeEngine = NoSession
    /\ breakpointManager = [isNull |-> TRUE]
    /\ window = [innerWidth |-> 0, clientWidth |-> 0]
    /\ trace = [engine |-> "ResizeEngine", calls |-> 0, last |-> NoEffects,
                session |-> NoHistory]

\* the canonical state after the setState calls of a method
Written(effects) ==
    IF Len(effects.setState) = 0 THEN state
    ELSE SetState([state EXCEPT !.widgets = effects.setState[Len(effects.setState)]], options)

\* the bookkeeping of a method call of the engine
Called(name, a, value, effects, history) ==
    /\ trace.calls < MaxCalls
    /\ op' = name
    /\ arg' = a
    /\ ret' = [value |-> value]
    /\ state' = Written(effects)
    /\ trace' = [trace EXCEPT !.calls = @ + 1, !.last = effects,
                              !.session = [history EXCEPT !.writes = @ + Len(effects.setState)]]
    /\ UNCHANGED <<pc, widgets, columns, options, breakpointManager, window>>

Started == [NoHistory EXCEPT !.atStart = state.widgets]
Updated(home) == [trace.session EXCEPT !.updates = Min(@ + 1, 2), !.home = home]

\* the widget ids a caller may pass: those of the dashboard and one more
Ids == 0..Len(widgets)

CanDragCall ==
    /\ trace.engine = "DragEngine"
    /\ \E id \in Ids :
          Called("canDrag", [id |-> id], CanDrag(id, state), NoEffects, trace.session)
    /\ UNCHANGED <<dragEngine, resizeEngine>>

StartDragCall ==
    /\ trace.engine = "DragEngine"
    /\ \E id \in Ids, p \in StartPointers :
          LET r == StartDrag(id, p.x, p.y, dragEngine, state)
          IN  /\ Called("startDrag", [id |-> id, x |-> p.x, y |-> p.y], r.value, r.effects,
                        IF r.value THEN Started ELSE trace.session)
              /\ dragEngine' = r.engine
    /\ UNCHANGED resizeEngine

UpdateDragCall ==
    /\ trace.engine = "DragEngine"
    /\ \E p \in Pointers :
          LET r == UpdateDrag(p.x, p.y, dragEngine, columns)
          IN  /\ Called("updateDrag", [x |-> p.x, y |-> p.y], FALSE, r.effects,
                        IF IsDragging(dragEngine)
                        THEN Updated(p.x = dragEngine.startPointerX /\ p.y = dragEngine.startPointerY)
                        ELSE trace.session)
              /\ dragEngine' = r.engine
    /\ UNCHANGED resizeEngine

EndDragCall ==
    /\ trace.engine = "DragEngine"
    /\ LET r == EndDrag(dragEngine, state, columns)
       IN  /\ Called("endDrag", Idle, r.value, r.effects, trace.session)
           /\ dragEngine' = r.engine
    /\ UNCHANGED resizeEngine

CancelDragCall ==
    /\ trace.engine = "DragEngine"
    /\ LET r == CancelDrag(dragEngine)
       IN  /\ Called("cancelDrag", Idle, FALSE, r.effects, trace.session)
           /\ dragEngine' = r.engine
    /\ UNCHANGED resizeEngine

CanResizeCall ==
    /\ trace.engine = "ResizeEngine"
    /\ \E id \in Ids :
          Called("canResize", [id |-> id], CanResize(id, state), NoEffects, trace.session)
    /\ UNCHANGED <<dragEngine, resizeEngine>>

StartResizeCall ==
    /\ trace.engine = "ResizeEngine"
    /\ \E id \in Ids, handle \in Handles, p \in StartPointers :
          LET r == StartResize(id, handle, p.x, p.y, resizeEngine, state)
          IN  /\ Called("startResize", [id |-> id, handle |-> handle, x |-> p.x, y |-> p.y],
                        r.value, r.effects,
                        IF r.value THEN [Started EXCEPT !.handle = handle] ELSE trace.session)
              /\ resizeEngine' = r.engine
    /\ UNCHANGED dragEngine

UpdateResizeCall ==
    /\ trace.engine = "ResizeEngine"
    /\ \E p \in Pointers :
          LET r == UpdateResize(p.x, p.y, resizeEngine, columns)
          IN  /\ Called("updateResize", [x |-> p.x, y |-> p.y], FALSE, r.effects,
                        IF IsResizing(resizeEngine)
                        THEN Updated(p.x = resizeEngine.startPointerX /\ p.y = resizeEngine.startPointerY)
                        ELSE trace.session)
              /\ resizeEngine' = r.engine
    /\ UNCHANGED dragEngine

EndResizeCall ==
    /\ trace.engine = "ResizeEngine"
    /\ LET r == EndResize(resizeEngine, state)
       IN  /\ Called("endResize", Idle, r.value, r.effects, trace.session)
           /\ resizeEngine' = r.engine
    /\ UNCHANGED dragEngine

CancelResizeCall ==
    /\ trace.engine = "ResizeEngine"
    /\ LET r == CancelResize(resizeEngine)
       IN  /\ Called("cancelResize", Idle, FALSE, r.effects, trace.session)
           /\ resizeEngine' = r.engine
    /\ UNCHANGED dragEngine

\* the bookkeeping of a call of one of the dashboard's own methods during a
\* session (one such call per session)
Meanwhile(name, a, st) ==
    /\ trace.calls < MaxCalls
    /\ IsDragging(dragEngine) \/ IsResizing(resizeEngine)
    /\ ~trace.session.foreign
    /\ st # state
    /\ op' = name
    /\ arg' = a
    /\ ret' = NoRet
    /\ state' = st
    /\ trace' = [trace EXCEPT !.last = NoEffects, !.session.foreign = TRUE]
    /\ UNCHANGED <<pc, widgets, columns, options, dragEngine, resizeEngine, breakpointManager, window>>

\* dashboard.updateWidget(id, {locked: true}) during a session
UpdateWidgetCall ==
    \E id \in Ids :
        Meanwhile("updateWidget", [id |-> id], UpdateWidget(id, [locked |-> TRUE], state))

\* dashboard.removeWidget(id) during a session
RemoveWidgetCall ==
    \E id \in Ids :
        Meanwhile("removeWidget", [id |-> id], RemoveWidget(id, state, options))

\* dashboard.moveWidget(id, x, y) during a session
MoveWidgetCall ==
    \E id \in Ids, y2 \in FewRequests :
        Meanwhile("moveWidget", [id |-> id, y |-> y2],
                  [state EXCEPT !.widgets = DashMoveWidget(id, 0, y2, state, options).widgets])

InitSession == InitDragEngine \/ InitResizeEngine \/ InitResizeLimited

NextSession ==
    \/ CanDragCall \/ StartDragCall \/ UpdateDragCall \/ EndDragCall \/ CancelDragCall
    \/ CanResizeCall \/ StartResizeCall \/ UpdateResizeCall \/ EndResizeCall \/ CancelResizeCall
    \/ UpdateWidgetCall \/ RemoveWidgetCall \/ MoveWidgetCall

SpecSession == InitSession /\ [][NextSession]_vars

----------------------------------------------------------------------------
(* Properties of the interaction sessions *)

\* the latest call emitted the notification
Emitted(event, flag) ==
    \E i \in 1..Len(trace.last.emitted) :
        trace.last.emitted[i].event = event /\ trace.last.emitted[i].flag = flag

\* the call being made is one of the engine's, and it finds the engine idle
IdleCall(names, engine) == op' \in names /\ engine.isNull

\* C11: each engine goes Idle -> Active -> Idle: a successful start makes it
\* active, an update keeps it active, end and cancel leave it idle with no
\* session state; on an idle engine update, cancel and end emit nothing, call
\* setState never, change nothing, and end returns false.
C11_IdleActiveIdle ==
    [][ /\ (op' = "startDrag" /\ ret'.value) => IsDragging(dragEngine')
        /\ (op' = "startResize" /\ ret'.value) => IsResizing(resizeEngine')
        /\ (op' = "updateDrag" /\ IsDragging(dragEngine)) => IsDragging(dragEngine')
        /\ (op' = "updateResize" /\ IsResizing(resizeEngine)) => IsResizing(resizeEngine')
        /\ op' \in {"endDrag", "cancelDrag"} =>
              (~IsDragging(dragEngine') /\ dragEngine'.isNull)
        /\ op' \in {"endResize", "cancelResize"} =>
              (~IsResizing(resizeEngine') /\ resizeEngine'.isNull)
        /\ (\/ IdleCall({"updateDrag", "cancelDrag", "endDrag"}, dragEngine)
            \/ IdleCall({"updateResize", "cancelResize", "endResize"}, resizeEngine)) =>
              /\ trace'.last = NoEffects
              /\ state' = state
              /\ dragEngine' = dragEngine /\ resizeEngine' = resizeEngine
              /\ ret'.value = FALSE
      ]_vars

\* a session that was updated and then cancelled: the engine is idle again
C11_Witness ==
    /\ op = "cancelDrag"
    /\ Emitted("drag:cancel", FALSE)
    /\ trace.session.updates > 0
    /\ dragEngine.isNull

\* the drag proposal is the position recorded at start
DragProposalAtStart ==
    /\ dragEngine.currentGridX = dragEngine.startWidgetX
    /\ dragEngine.currentGridY = dragEngine.startWidgetY

\* the resize proposal is the geometry recorded at start
ResizeProposalAtStart ==
    /\ resizeEngine.currentX = resizeEngine.startWidgetX
    /\ resizeEngine.currentY = resizeEngine.startWidgetY
    /\ resizeEngine.currentW = resizeEngine.startWidgetW
    /\ resizeEngine.currentH = resizeEngine.startWidgetH

\* the pointer was moved and is back where the session started
ZeroNetDelta == trace.session.updates > 0 /\ trace.session.home

\* the end call that is being made changes nothing: false, the end notification
\* with moved / resized = false, no setState, the canonical state as it was
EndsUnchanged(event) ==
    /\ ret'.value = FALSE
    /\ \E i \in 1..Len(trace'.last.emitted) :
          trace'.last.emitted[i].event = event /\ trace'.last.emitted[i].flag = FALSE
    /\ trace'.last.setState = <<>>
    /\ state' = state

InGrid(w) == w.x >= 0 /\ w.y >= 0 /\ w.x + w.w <= columns

\* the widget recorded at start has a size within its limits
InLimits(w) ==
    /\ Coalesce(w.minW, 1) <= w.w /\ w.w <= Coalesce(w.maxW, columns)
    /\ Coalesce(w.minH, 1) <= w.h /\ (w.maxH # Undef => w.h <= w.maxH)

C13_WriteOnlyAtEnd ==
    [][ /\ op' \in {"canDrag", "startDrag", "updateDrag", "cancelDrag",
                    "canResize", "startResize", "updateResize", "cancelResize"} =>
              (trace'.last.setState = <<>> /\ state' = state)
        /\ trace'.session.writes <= 1
        /\ trace'.session.writes > 0 =>
              (op' \in {"endDrag", "endResize"} \/ trace.session.writes > 0)
        /\ (op' \in {"cancelDrag", "cancelResize"} /\ trace'.last.emitted # <<>>
              /\ ~trace'.session.foreign) => state'.widgets = trace'.session.atStart
      ]_vars

\* a resize session was updated to another size and then cancelled
C13_Witness ==
    /\ op = "cancelResize"
    /\ Emitted("resize:cancel", FALSE)
    /\ trace.session.updates > 0 /\ ~trace.session.home
    /\ ~trace.session.foreign
    /\ state.widgets = trace.session.atStart

\* C14: a drag session that ends with a proposal different from its start
\* position returns true, calls setState once with
\* GridEngine.moveWidget(id, proposedX, proposedY, W, columns), W being the
\* widget list getState returns at end time, and emits drag:end with moved = true.
C14_CommitOnFreshState ==
    [][ (op' = "endDrag" /\ IsDragging(dragEngine) /\ ~DragProposalAtStart) =>
            /\ ret'.value = TRUE
            /\ trace'.last.setState =
                  <<MoveWidget(dragEngine.widgetId, 2 * dragEngine.currentGridX,
                               2 * dragEngine.currentGridY,
                               GetState(state).widgets, columns).widgets>>
            /\ \E i \in 1..Len(trace'.last.emitted) :
                  /\ trace'.last.emitted[i].event = "drag:end"
                  /\ trace'.last.emitted[i].flag = TRUE
      ]_vars

\* the widget named is missing, locked or noMove in the canonical state
DragForbidden(id) ==
    \A i \in 1..Len(state.widgets) :
        state.widgets[i].id = id => (state.widgets[i].locked \/ state.widgets[i].noMove)

\* the widget named is missing, locked or noResize in the canonical state
ResizeForbiddenNow(id) ==
    \A i \in 1..Len(state.widgets) :
        state.widgets[i].id = id => (state.widgets[i].locked \/ state.widgets[i].noResize)

\* C15: startDrag for a missing, locked or noMove widget and startResize for a
\* missing, locked or noResize widget return false, emit nothing, create no
\* session and leave an idle engine idle; canDrag / canResize return false in
\* exactly those cases.
C15_StartRejected ==
    [][ /\ (op' = "startDrag" /\ DragForbidden(arg'.id)) =>
              /\ ret'.value = FALSE /\ trace'.last = NoEffects
              /\ dragEngine' = dragEngine /\ state' = state
        /\ (op' = "startResize" /\ ResizeForbiddenNow(arg'.id)) =>
              /\ ret'.value = FALSE /\ trace'.last = NoEffects
              /\ resizeEngine' = resizeEngine /\ state' = state
        /\ op' = "canDrag" => (ret'.value <=> ~DragForbidden(arg'.id))
        /\ op' = "canResize" => (ret'.value <=> ~ResizeForbiddenNow(arg'.id))
      ]_vars

\* a drag of a noMove widget was refused and the engine is idle
C15_Witness ==
    /\ op = "startDrag"
    /\ \E i \in 1..Len(state.widgets) :
          /\ state.widgets[i].id = arg.id
          /\ state.widgets[i].noMove /\ ~state.widgets[i].locked
    /\ ret.value = FALSE
    /\ dragEngine.isNull
    /\ trace.last = NoEffects

\* the limits of the widget being resized
SessionLoW == Coalesce(resizeEngine.widget.minW, 1)
SessionHiW == Coalesce(resizeEngine.widget.maxW, columns)
SessionLoH == Coalesce(resizeEngine.widget.minH, 1)
SessionHasHiH == resizeEngine.widget.maxH # Undef
SessionHiH == resizeEngine.widget.maxH

\* the session was updated at least once
Proposed == IsResizing(resizeEngine) /\ trace.session.updates > 0

\* C16 as stated: after every update of a resize session the proposed width lies
\* in [minW ?? 1, maxW ?? columns] and the proposed height in
\* [minH ?? 1, maxH ?? unbounded]; on the 12-column grid, minW = 2 and maxW = 6,
\* a request of w = 10 on the se handle is committed as 6.
C16_ProposalWithinLimits ==
    /\ Proposed =>
          /\ SessionLoW <= resizeEngine.currentW /\ resizeEngine.currentW <= SessionHiW
          /\ SessionLoH <= resizeEngine.currentH
          /\ SessionHasHiH => resizeEngine.currentH <= SessionHiH
    /\ (op = "endResize" /\ columns = 12 /\ trace.session.handle = "se"
          /\ trace.session.updates > 0 /\ Len(state.widgets) = 1) => state.widgets[1].w = 6

\* C16 amended: the proposed width lies in [lo, hi] = [minW ?? 1, maxW ?? columns]
\* when lo <= hi and, on a handle without a west side, the widget's x leaves
\* room for lo columns; on such a handle a width that would cross the right
\* edge is cut to columns - x, also below lo; with lo > hi the width is lo
\* (unless cut at the edge).  The proposed height lies in [minH ?? 1, maxH]
\* when these are ordered and is minH otherwise.  The 12-column example holds.
C16_ProposalWithinOrderedLimits ==
    /\ Proposed =>
          LET west == IncludesW(resizeEngine.handle)
              room == columns - resizeEngine.startWidgetX
          IN  /\ (SessionLoW <= SessionHiW /\ (west \/ SessionLoW <= room)) =>
                    /\ SessionLoW <= resizeEngine.currentW
                    /\ resizeEngine.currentW <= SessionHiW
              /\ (~west /\ SessionLoW > room) => resizeEngine.currentW = room
              /\ (SessionLoW > SessionHiW /\ (west \/ SessionLoW <= room)) =>
                    resizeEngine.currentW = SessionLoW
              /\ (~SessionHasHiH \/ SessionLoH <= SessionHiH) =>
                    /\ SessionLoH <= resizeEngine.currentH
                    /\ SessionHasHiH => resizeEngine.currentH <= SessionHiH
              /\ (SessionHasHiH /\ SessionLoH > SessionHiH) =>
                    resizeEngine.currentH = SessionLoH
    /\ (op = "endResize" /\ columns = 12 /\ trace.session.handle = "se"
          /\ trace.session.updates > 0 /\ Len(state.widgets) = 1) => state.widgets[1].w = 6

\* the 12-column example: se handle, ten columns asked, six committed
C16_Witness ==
    /\ op = "endResize"
    /\ columns = 12
    /\ trace.session.handle = "se"
    /\ trace.session.updates > 0
    /\ ret.value = TRUE
    /\ Len(trace.session.atStart) > 0
    /\ Len(state.widgets) > 0
    /\ trace.session.atStart[1].w = 4
    /\ state.widgets[1].w = 6

\* C27: with a west-facing handle the right edge stays where it was at start
\* (x + w = start x + start w) and with a north-facing handle the bottom edge
\* does (y + h = start y + start h), after every update, clamped or not.
C27_FarEdgePinned ==
    Proposed =>
        /\ IncludesW(resizeEngine.handle) =>
              resizeEngine.currentX + resizeEngine.currentW
                  = resizeEngine.startWidgetX + resizeEngine.startWidgetW
        /\ resizeEngine.handle \in {"n", "ne", "nw"} =>
              resizeEngine.currentY + resizeEngine.currentH
                  = resizeEngine.startWidgetY + resizeEngine.startWidgetH

\* the widget a resize session started on (the dashboard of a resize session
\* holds one widget), and the committed widget
StartWidget == trace.session.atStart[1]
LimitsFit(w) == Max(Coalesce(w.minW, 1), Coalesce(w.maxW, columns)) <= columns
ResizeCommitted ==
    /\ trace.engine = "ResizeEngine"
    /\ op = "endResize"
    /\ ret.value = TRUE
    /\ Len(trace.last.setState) > 0

\* the terminal notifications among the events emitted
Terminals(emitted, names) ==
    Cardinality({i \in 1..Len(emitted) : emitted[i].event \in names})

\* C36: when a session goes back to idle, exactly one of drag:end / drag:cancel
\* (resize:end / resize:cancel) is emitted, and end() returns true only if it
\* wrote the canonical state, also when the dashboard changed the widget
\* during the session
C36_OneTerminalNotification ==
    [][ /\ (IsDragging(dragEngine) /\ ~IsDragging(dragEngine')) =>
              /\ Terminals(trace'.last.emitted, {"drag:end", "drag:cancel"}) = 1
              /\ (op' = "endDrag" /\ ret'.value) => Len(trace'.last.setState) > 0
        /\ (IsResizing(resizeEngine) /\ ~IsResizing(resizeEngine')) =>
              /\ Terminals(trace'.last.emitted, {"resize:end", "resize:cancel"}) = 1
              /\ (op' = "endResize" /\ ret'.value) => Len(trace'.last.setState) > 0 ]_vars

\* C38: a resize session on a noMove widget commits the x and y the widget
\* had when the session started, whatever the handle
C38_NoMoveKeepsPosition ==
    (ResizeCommitted /\ StartWidget.noMove /\ ~trace.session.foreign) =>
        LET k == FindIndex(state.widgets, StartWidget.id)
        IN  /\ k # 0
            /\ state.widgets[k].x = StartWidget.x
            /\ state.widgets[k].y = StartWidget.y

\* the proposal of the session, and the widget committed by end(), are inside
\* the grid when the widget started inside it (and, if fitting is asked, with
\* limits that fit the grid)
StartsInGrid(w, fitting) == InGrid(w) /\ (fitting => LimitsFit(w))
ProposalInGrid(fitting) ==
    /\ (Proposed /\ StartsInGrid(resizeEngine.widget, fitting)) =>
          /\ resizeEngine.currentX >= 0
          /\ resizeEngine.currentY >= 0
          /\ resizeEngine.currentX + resizeEngine.currentW <= columns
    /\ (ResizeCommitted /\ StartsInGrid(StartWidget, fitting)) =>
          \A i \in 1..Len(state.widgets) :
              state.widgets[i].id = StartWidget.id => InGrid(state.widgets[i])

\* C28 (as stated): on a widget that starts inside the grid, every proposal of a
\* resize session has x >= 0, y >= 0 and x + w <= columns, and so has the
\* geometry committed by end()
C28_ResizeInGrid == ProposalInGrid(FALSE)

\* C28 (amended): that holds when, besides, the widget's width limits fit the
\* grid: max(minW ?? 1, maxW ?? columns) <= columns; with a wider limit a
\* west-facing handle proposes x = 0 with a width beyond the right edge
C28_ResizeInGridWhenLimitsFit == ProposalInGrid(TRUE)

\* an east-facing handle was dragged beyond the right edge and the width was cut
C28_Witness ==
    /\ Proposed
    /\ op = "updateResize"
    /\ InGrid(resizeEngine.widget) /\ LimitsFit(resizeEngine.widget)
    /\ resizeEngine.handle = "e"
    /\ resizeEngine.currentW > resizeEngine.startWidgetW
    /\ resizeEngine.currentX + resizeEngine.currentW = columns
    /\ resizeEngine.startWidgetX + resizeEngine.startWidgetW
          + MathRound(arg.x - resizeEngine.startPointerX) > columns

\* a drag session was updated at least once
DragProposed == IsDragging(dragEngine) /\ trace.session.updates > 0

\* the proposal of a drag session has x in [0, hi], y >= 0, and the drag:move
\* notification of an update carries the proposal, with no write made
DragProposalWithin(hi) ==
    DragProposed =>
        /\ 0 <= dragEngine.currentGridX /\ dragEngine.currentGridX <= hi
        /\ dragEngine.currentGridY >= 0
        /\ op = "updateDrag" =>
              /\ trace.last.emitted
                    = <<EmitAt("drag:move", dragEngine.widgetId, FALSE,
                               dragEngine.currentGridX, dragEngine.currentGridY)>>
              /\ trace.last.setState = <<>>

\* C29 (as stated): after every update of a drag session 0 <= x <= columns - w
\* and y >= 0, and drag:move carries that proposed, uncommitted position
C29_DragProposalInGrid == DragProposalWithin(columns - dragEngine.widget.w)

\* C29 (amended): x lies in [0, max(0, columns - w)]: a widget wider than the
\* grid is proposed at x = 0, which is above columns - w
C29_DragProposalClamped == DragProposalWithin(Max(0, columns - dragEngine.widget.w))

\* the pointer asked for a column beyond the last one the widget fits in
C29_Witness ==
    /\ DragProposed
    /\ op = "updateDrag"
    /\ dragEngine.currentGridX = columns - dragEngine.widget.w
    /\ dragEngine.currentGridX # dragEngine.startWidgetX
    /\ MathRound(arg.x - dragEngine.offsetX) > columns - dragEngine.widget.w

----------------------------------------------------------------------------
(* BreakpointManager (src/src/core/BreakpointManager.ts).                      *)
(* this.breakpoints is an object keyed by breakpoint name; it is represented   *)
(* by the sequence of its entries [name, width, columns, layout] in the order  *)
(* in which Object.entries enumerates them.                                    *)

\* breakpoint names that are canonical array indices, with their numeric value:
\* an object enumerates such keys first, in ascending numeric order, and the
\* other string keys after them in insertion order
ArrayIndex == ("1" :> 1) @@ ("2" :> 2)
IsArrayIndex(name) == name \in DOMAIN ArrayIndex

\* config.layout: absent, or an array of widgets; ref tells whose array it is
\* ("copy": an array only the manager holds)
NoLayout == [isNull |-> TRUE, ref |-> "none", widgets |-> <<>>]
Stored(ref, ws) == [isNull |-> FALSE, ref |-> ref, widgets |-> ws]

\* the entries with array-index names, in ascending numeric order
Ascending(entries) ==
    [k \in 1..Len(entries) |->
        CHOOSE e \in Range(entries) :
            Cardinality({f \in Range(entries) :
                            ArrayIndex[f.name] < ArrayIndex[e.name]}) = k - 1]

\* Object.fromEntries(entries), and an object literal written in that order
ObjectFromEntries(entries) ==
    Ascending(SelectSeq(entries, LAMBDA e : IsArrayIndex(e.name)))
        \o SelectSeq(entries, LAMBDA e : ~IsArrayIndex(e.name))

\* entries.sort(([, a], [, b]) => a.width - b.width): a stable sort
SortByWidth(entries) ==
    [k \in 1..Len(entries) |->
        entries[CHOOSE i \in 1..Len(entries) :
                    Cardinality({j \in 1..Len(entries) :
                                    \/ entries[j].width < entries[i].width
                                    \/ entries[j].width = entries[i].width /\ j < i}) = k - 1]]

\* sortBreakpoints()
SortBreakpoints(breakpoints) == ObjectFromEntries(SortByWidth(breakpoints))

\* getViewportWidth(): window.innerWidth || document.documentElement.clientWidth
GetViewportWidth(win) == IF win.innerWidth # 0 THEN win.innerWidth ELSE win.clientWidth

\* the loop of getCurrentBreakpoint(): the last entry that fits before the first
\* one that does not ("null": none)
RECURSIVE ScanBreakpoints(_, _, _, _)
ScanBreakpoints(breakpoints, i, width, matchedBreakpoint) ==
    IF i > Len(breakpoints) THEN matchedBreakpoint
    ELSE IF width >= breakpoints[i].width
         THEN ScanBreakpoints(breakpoints, i + 1, width, breakpoints[i].name)
         ELSE matchedBreakpoint

\* getCurrentBreakpoint(): the name of the matched breakpoint
GetCurrentBreakpoint(manager, win) ==
    ScanBreakpoints(manager.breakpoints, 1, GetViewportWidth(win), "null")

\* this.breakpoints[name]: the position of the entry, 0 when there is none
ConfigIndex(breakpoints, name) ==
    IF \E i \in 1..Len(breakpoints) : breakpoints[i].name = name
    THEN CHOOSE i \in 1..Len(breakpoints) : breakpoints[i].name = name
    ELSE 0

\* new BreakpointManager(breakpoints, ...): breakpoints as the caller wrote them
NewBreakpointManager(configured) ==
    [isNull |-> FALSE,
     breakpoints |-> SortBreakpoints(ObjectFromEntries(configured)),
     currentBreakpointName |-> "null",
     resizeHandler |-> "null",
     resizeTimeout |-> Undef]

\* updateBreakpoint(name, {width})
UpdateBreakpoint(name, width, manager) ==
    LET k == ConfigIndex(manager.breakpoints, name)
    IN  IF k = 0 THEN [manager |-> manager, value |-> FALSE]
        ELSE [manager |-> [manager EXCEPT !.breakpoints =
                              SortBreakpoints([manager.breakpoints EXCEPT ![k].width = width])],
              value |-> TRUE]

----------------------------------------------------------------------------
(* Breakpoint matching: a manager is constructed over drawn breakpoints, and   *)
(* getCurrentBreakpoint is called while widths are updated and the viewport    *)
(* changes.                                                                    *)

Breakpoint(name, width, cols) ==
    [name |-> name, width |-> width, columns |-> cols, layout |-> NoLayout]

\* {sm: 576, md: 768, lg: 992}
NamedBreakpoints ==
    { Breakpoint("sm", 576, 6), Breakpoint("md", 768, 8), Breakpoint("lg", 992, 12) }

MatchNames == {"1", "2", "md"}

\* the widths an update may set and the viewport widths, by the breakpoints drawn
WidthsFor(manager) ==
    IF ConfigIndex(manager.breakpoints, "sm") # 0 THEN {600, 800, 1100} ELSE 1..MaxWidth
ViewportsFor(manager) ==
    IF ConfigIndex(manager.breakpoints, "sm") # 0 THEN {400, 800, 1000} ELSE 0..MaxWidth

\* the state shared by the constructions of a manager on its own
MatchFrame(configured) ==
    /\ op = "new BreakpointManager"
    /\ pc = "done"
    /\ widgets = <<>>
    /\ columns = 0
    /\ arg = Idle
    /\ ret = NoRet
    /\ state = [columns |-> 0, widgets |-> <<>>]
    /\ options = Idle
    /\ dragEngine = [isNull |-> TRUE]
    /\ resizeEngine = [isNull |-> TRUE]
    /\ breakpointManager = NewBreakpointManager(configured)
    /\ trace = [calls |-> 0, configured |-> configured]

\* the three named breakpoints, written in any order
InitMatchNamed ==
    \E a \in NamedBreakpoints, b \in NamedBreakpoints, c \in NamedBreakpoints,
       v \in {400, 800, 1000} :
        /\ {a, b, c} = NamedBreakpoints
        /\ MatchFrame(<<a, b, c>>)
        /\ window = [innerWidth |-> v, clientWidth |-> v]

\* two breakpoints of drawn names and widths, written in either order
InitMatchDrawn ==
    \E n1 \in MatchNames, n2 \in MatchNames, w1 \in 1..MaxWidth, w2 \in 1..MaxWidth,
       v \in 0..MaxWidth :
        /\ n1 # n2
        /\ MatchFrame(<<Breakpoint(n1, w1, 1), Breakpoint(n2, w2, 2)>>)
        /\ window = [innerWidth |-> v, clientWidth |-> v]

InitMatch == InitMatchNamed \/ InitMatchDrawn

\* the bookkeeping of a call on the manager
ManagerCalled(name, a, value) ==
    /\ trace.calls < MaxCalls
    /\ op' = name
    /\ arg' = a
    /\ ret' = [value |-> value]
    /\ trace' = [trace EXCEPT !.calls = @ + 1]
    /\ UNCHANGED <<pc, widgets, columns, state, options, dragEngine, resizeEngine>>

GetCurrentBreakpointCall ==
    /\ ManagerCalled("getCurrentBreakpoint", Idle, GetCurrentBreakpoint(breakpointManager, window))
    /\ UNCHANGED <<breakpointManager, window>>

UpdateBreakpointCall ==
    /\ \E name \in {breakpointManager.breakpoints[i].name :
                        i \in 1..Len(breakpointManager.breakpoints)} \cup {"xx"},
          width \in WidthsFor(breakpointManager) :
            LET r == UpdateBreakpoint(name, width, breakpointManager)
            IN  /\ ManagerCalled("updateBreakpoint", [name |-> name, width |-> width], r.value)
                /\ breakpointManager' = r.manager
    /\ UNCHANGED window

\* the viewport changes width (no resize listener is attached)
ViewportChange ==
    /\ \E v \in ViewportsFor(breakpointManager) :
          /\ v # window.innerWidth
          /\ window' = [innerWidth |-> v, clientWidth |-> v]
    /\ op' = "viewport"
    /\ arg' = Idle
    /\ ret' = NoRet
    /\ UNCHANGED <<pc, widgets, columns, state, options, dragEngine, resizeEngine,
                   breakpointManager, trace>>

NextMatch == GetCurrentBreakpointCall \/ UpdateBreakpointCall \/ ViewportChange

SpecMatch == InitMatch /\ [][NextMatch]_vars

\* the breakpoints whose width the viewport reaches
Fitting == { i \in 1..Len(breakpointManager.breakpoints) :
                breakpointManager.breakpoints[i].width <= GetViewportWidth(window) }

\* the widths of the three named breakpoints are as configured
NamedAsConfigured ==
    { [name |-> b.name, width |-> b.width] : b \in Range(breakpointManager.breakpoints) }
        = { [name |-> b.name, width |-> b.width] : b \in NamedBreakpoints }

\* C17: getCurrentBreakpoint returns a configured breakpoint of the greatest width
\* that the viewport reaches, whatever the order in which the breakpoints were
\* written and whatever widths were updated; it returns null exactly when the
\* viewport is narrower than every breakpoint; with {sm: 576, md: 768, lg: 992},
\* 800 gives md, 400 gives null and 1000 gives lg.
C17_GreatestFitting ==
    op = "getCurrentBreakpoint" =>
        LET bps == breakpointManager.breakpoints
        IN  /\ (ret.value = "null") <=> (Fitting = {})
            /\ Fitting # {} =>
                  \E i \in Fitting :
                      /\ bps[i].name = ret.value
                      /\ \A j \in Fitting : bps[j].width <= bps[i].width
            /\ NamedAsConfigured =>
                  /\ window.innerWidth = 800 => ret.value = "md"
                  /\ window.innerWidth = 400 => ret.value = "null"
                  /\ window.innerWidth = 1000 => ret.value = "lg"

----------------------------------------------------------------------------
(* Breakpoint switching: BreakpointManager.switchToBreakpoint and the change   *)
(* callback of IAZDashboard.initBreakpointManager.                             *)
(* An array is named by who holds it: "live" is the array getCurrentLayout     *)
(* returns, "passed" the array a caller passed to saveLayoutForBreakpoint,     *)
(* "copy" an array only the manager holds.                                     *)

\* what a switch did, in order: getCurrentLayout read, a layout stored for a
\* breakpoint, the active name set, the change callback invoked
Step(ev, name, oldName, config, ws) ==
    [ev |-> ev, name |-> name, oldName |-> oldName, config |-> config, widgets |-> ws]
NoConfig == [width |-> 0, columns |-> 0]
ConfigOf(breakpoint) == [width |-> breakpoint.width, columns |-> breakpoint.columns]
Read == Step("getCurrentLayout", "none", "none", NoConfig, <<>>)
Saved(name, ws) == Step("save", name, "none", NoConfig, ws)
Active(name) == Step("set", name, "none", NoConfig, <<>>)
Changed(name, config, oldName) == Step("onBreakpointChange", name, oldName, config, <<>>)

\* getLayoutForBreakpoint(name): config.layout || null
GetLayoutForBreakpoint(name, manager) ==
    LET k == ConfigIndex(manager.breakpoints, name)
    IN  IF k = 0 THEN NoLayout ELSE manager.breakpoints[k].layout

\* (mutant: the array itself is stored)
SaveLayoutByReference(name, layout, manager) ==
    LET k == ConfigIndex(manager.breakpoints, name)
    IN  IF k = 0 THEN manager
        ELSE [manager EXCEPT !.breakpoints[k].layout = layout]

\* saveLayoutForBreakpoint(name, layout): a JSON copy of the array is stored
SaveLayoutForBreakpoint(name, layout, manager) ==
    LET k == ConfigIndex(manager.breakpoints, name)
    IN  IF k = 0 THEN manager
        ELSE [manager EXCEPT !.breakpoints[k].layout = Stored("copy", JsonClone(layout.widgets))]

\* saveCurrentLayout(): live is the array getCurrentLayout returns
SaveCurrentLayout(manager, live) ==
    IF manager.currentBreakpointName = "null"
    THEN [manager |-> manager, log |-> <<>>]
    ELSE LET saved == SaveLayoutForBreakpoint(manager.currentBreakpointName, live, manager)
         IN  [manager |-> saved,
              log |-> <<Read, Saved(manager.currentBreakpointName,
                                    GetLayoutForBreakpoint(manager.currentBreakpointName,
                                                           saved).widgets)>>]

\* the first-time adaptation of the callback: clamp x and w, compact on collision
AdaptLayout(ws, cols) ==
    LET clamped == [i \in 1..Len(ws) |->
                       [ws[i] EXCEPT !.x = Min(ws[i].x, Max(0, cols - ws[i].w)),
                                     !.w = Min(ws[i].w, cols)]]
        hasCollisions == \E i \in 1..Len(clamped), j \in 1..Len(clamped) :
                             i < j /\ CheckCollision(clamped[i], clamped[j])
    IN  IF hasCollisions THEN CompactLayout(clamped) ELSE clamped

\* the change callback of the dashboard, run with the manager as
\* switchToBreakpoint left it
OnBreakpointChange(name, config, oldName, manager, st) ==
    LET saved == IF oldName # "null"
                 THEN SaveCurrentLayout(manager, Stored("live", st.widgets))
                 ELSE [manager |-> manager, log |-> <<>>]
        breakpointLayout == GetLayoutForBreakpoint(name, saved.manager)
        loaded == IF ~breakpointLayout.isNull /\ Len(breakpointLayout.widgets) > 0
                  THEN JsonClone(breakpointLayout.widgets)
                  ELSE IF oldName # "null" /\ st.columns # config.columns
                       THEN AdaptLayout(st.widgets, config.columns)
                       ELSE st.widgets
    IN  [manager |-> saved.manager,
         state |-> [columns |-> config.columns, widgets |-> loaded],
         log |-> saved.log]

\* this.onBreakpointChange(name, config, oldName), by who constructed the manager
Callback(host, name, config, oldName, manager, st) ==
    IF host = "dashboard"
    THEN OnBreakpointChange(name, config, oldName, manager, st)
    ELSE [manager |-> manager, state |-> st, log |-> <<>>]

\* (mutant: an active breakpoint is switched to again without force)
SwitchToBreakpointAlways(name, force, manager, st, host) ==
    LET k == ConfigIndex(manager.breakpoints, name)
        config == ConfigOf(manager.breakpoints[k])
        cb == Callback(host, name, config, manager.currentBreakpointName,
                       [manager EXCEPT !.currentBreakpointName = name], st)
    IN  IF k = 0
        THEN [manager |-> manager, state |-> st, value |-> FALSE, log |-> <<>>]
        ELSE [manager |-> cb.manager, state |-> cb.state, value |-> TRUE,
              log |-> <<Active(name), Changed(name, config, manager.currentBreakpointName)>>
                          \o cb.log]

\* switchToBreakpoint(name, force)
SwitchToBreakpoint(name, force, manager, st, host) ==
    LET k == ConfigIndex(manager.breakpoints, name)
        oldName == manager.currentBreakpointName
        saved == IF oldName # "null"
                 THEN SaveCurrentLayout(manager, Stored("live", st.widgets))
                 ELSE [manager |-> manager, log |-> <<>>]
        config == ConfigOf(manager.breakpoints[k])
        cb == Callback(host, name, config, oldName,
                       [saved.manager EXCEPT !.currentBreakpointName = name], st)
    IN  IF k = 0 \/ (~force /\ oldName = name)
        THEN [manager |-> manager, state |-> st, value |-> FALSE, log |-> <<>>]
        ELSE [manager |-> cb.manager, state |-> cb.state, value |-> TRUE,
              log |-> saved.log \o <<Active(name), Changed(name, config, oldName)>> \o cb.log]

\* checkAndSwitch()
CheckAndSwitch(manager, st, win, host) ==
    LET current == GetCurrentBreakpoint(manager, win)
    IN  IF current = "null"
        THEN [manager |-> manager, state |-> st, value |-> FALSE, log |-> <<>>]
        ELSE SwitchToBreakpoint(current, FALSE, manager, st, host)

\* an assignment through the array held as ref is seen by every stored layout
\* that is this array
Aliased(manager, ref, ws) ==
    [manager EXCEPT !.breakpoints =
        [i \in 1..Len(manager.breakpoints) |->
            IF manager.breakpoints[i].layout.ref = ref
            THEN [manager.breakpoints[i] EXCEPT !.layout.widgets = ws]
            ELSE manager.breakpoints[i]]]

----------------------------------------------------------------------------
(* The breakpoint specification: a manager over the breakpoints sm and md,     *)
(* constructed by a caller with recording callbacks ("caller") or by the       *)
(* dashboard ("dashboard", which starts listening at once).                    *)

\* {sm: {width: 1, columns: 1}, md: {width: 2, columns: 2}}
SwitchBreakpoints == <<Breakpoint("sm", 1, 1), Breakpoint("md", 2, 2)>>
SwitchNames == {"sm", "md", "xx"}

\* widget.content: absent, a string or an HTMLElement
WithContent(widget, content) ==
    IF content = "absent" THEN widget ELSE [content |-> content] @@ widget
Contents == {"absent", "Widget 1", "element"}

\* the layouts a caller holds: one widget, or two side by side
CallerLayouts ==
    { <<WithContent(MakeWidget(0, [x |-> 0, y |-> 0, w |-> 1, h |-> 1], NoFlags, NoLimits), c)>> :
          c \in Contents }
      \cup { <<MakeWidget(0, [x |-> 0, y |-> 0, w |-> 1, h |-> 1], NoFlags, NoLimits),
               MakeWidget(1, [x |-> 1, y |-> 0, w |-> 1, h |-> 1], NoFlags, NoLimits)>> }

NoRoute == <<>>

InitCaller ==
    \E layout \in CallerLayouts :
        /\ op = "new BreakpointManager"
        /\ pc = "done"
        /\ widgets = layout
        /\ columns = 0
        /\ arg = Idle
        /\ ret = NoRet
        /\ state = [columns |-> 0, widgets |-> layout]
        /\ options = Idle
        /\ dragEngine = [isNull |-> TRUE]
        /\ resizeEngine = [isNull |-> TRUE]
        /\ breakpointManager = NewBreakpointManager(SwitchBreakpoints)
        /\ window = [innerWidth |-> 0, clientWidth |-> 0]
        /\ trace = [host |-> "caller", calls |-> 0, log |-> <<>>, passed |-> NoLayout,
                    route |-> NoRoute, changed |-> FALSE]

\* new IAZDashboard(container, {columns: 2, breakpoints, widgets}): the manager
\* is constructed and startListening() runs checkAndSwitch() at once
InitDashboard ==
    \E layout \in CallerLayouts \cup {<<>>}, v \in 0..2 :
        LET win == [innerWidth |-> v, clientWidth |-> v]
            r == CheckAndSwitch(NewBreakpointManager(SwitchBreakpoints),
                                [columns |-> 2, widgets |-> layout], win, "dashboard")
        IN  /\ op = "new IAZDashboard"
            /\ pc = "done"
            /\ widgets = layout
            /\ columns = 2
            /\ arg = Idle
            /\ ret = NoRet
            /\ state = r.state
            /\ options = Idle
            /\ dragEngine = [isNull |-> TRUE]
            /\ resizeEngine = [isNull |-> TRUE]
            /\ breakpointManager = r.manager
            /\ window = win
            /\ trace = [host |-> "dashboard", calls |-> 0, log |-> r.log, passed |-> NoLayout,
                        route |-> NoRoute, changed |-> FALSE]

InitBreakpoint == InitCaller \/ InitDashboard

\* the last two switches made: from, to, the layout that was live when from was
\* left and whether it had changed while from was active
Routed(r) ==
    IF ~r.value THEN trace.route
    ELSE LET leg == [from |-> breakpointManager.currentBreakpointName,
                     to |-> r.manager.currentBreakpointName,
                     live |-> state.widgets, changed |-> trace.changed]
         IN  IF Len(trace.route) < 2 THEN Append(trace.route, leg)
             ELSE <<trace.route[2], leg>>

\* the bookkeeping of a call that may switch
Switched(name, a, r) ==
    /\ trace.calls < MaxCalls
    /\ op' = name
    /\ arg' = a
    /\ ret' = [value |-> r.value]
    /\ state' = r.state
    /\ breakpointManager' = r.manager
    /\ trace' = [trace EXCEPT !.calls = @ + 1, !.log = r.log, !.route = Routed(r),
                              !.changed = IF r.value THEN FALSE ELSE @]
    /\ UNCHANGED <<pc, widgets, columns, options, dragEngine, resizeEngine>>

SwitchToBreakpointCall ==
    /\ trace.host = "caller"
    /\ \E name \in SwitchNames, force \in BOOLEAN :
          Switched("switchToBreakpoint", [name |-> name, force |-> force],
                   SwitchToBreakpoint(name, force, breakpointManager, state, trace.host))
    /\ UNCHANGED window

\* the viewport changes width and the debounced resize handler runs
ResizeCall ==
    /\ trace.host = "dashboard"
    /\ \E v \in 0..2 :
          /\ v # window.innerWidth
          /\ window' = [innerWidth |-> v, clientWidth |-> v]
          /\ Switched("resize", [width |-> v],
                      CheckAndSwitch(breakpointManager, state, window', trace.host))

\* saveLayoutForBreakpoint(name, testLayout) with the array testLayout that the
\* caller keeps
SaveLayoutForBreakpointCall ==
    /\ trace.host = "caller"
    /\ trace.calls < MaxCalls
    /\ \E name \in SwitchNames,
          layout \in IF trace.passed.isNull THEN CallerLayouts ELSE {trace.passed.widgets} :
          /\ op' = "saveLayoutForBreakpoint"
          /\ arg' = [name |-> name]
          /\ breakpointManager' =
                SaveLayoutForBreakpoint(name, Stored("passed", layout), breakpointManager)
          /\ trace' = [trace EXCEPT !.calls = @ + 1, !.log = <<>>,
                                    !.passed = Stored("passed", layout)]
    /\ ret' = NoRet
    /\ UNCHANGED <<pc, widgets, columns, state, options, dragEngine, resizeEngine, window>>

\* layout[0].x = 5 - x
Mutated(ws) == [ws EXCEPT ![1].x = 5 - @]

\* the live layout is mutated in place (currentLayout[0].x = ..., updateWidget)
MutateLiveLayout ==
    /\ trace.calls < MaxCalls
    /\ Len(state.widgets) > 0
    /\ op' = "mutate live"
    /\ arg' = Idle
    /\ ret' = NoRet
    /\ state' = [state EXCEPT !.widgets = Mutated(@)]
    /\ breakpointManager' = Aliased(breakpointManager, "live", Mutated(state.widgets))
    /\ trace' = [trace EXCEPT !.calls = @ + 1, !.log = <<>>, !.changed = TRUE]
    /\ UNCHANGED <<pc, widgets, columns, options, dragEngine, resizeEngine, window>>

\* the array passed to saveLayoutForBreakpoint is mutated (testLayout[0].x = ...)
MutatePassedLayout ==
    /\ trace.calls < MaxCalls
    /\ ~trace.passed.isNull
    /\ op' = "mutate passed"
    /\ arg' = Idle
    /\ ret' = NoRet
    /\ breakpointManager' = Aliased(breakpointManager, "passed", Mutated(trace.passed.widgets))
    /\ trace' = [trace EXCEPT !.calls = @ + 1, !.log = <<>>,
                              !.passed.widgets = Mutated(@)]
    /\ UNCHANGED <<pc, widgets, columns, state, options, dragEngine, resizeEngine, window>>

NextBreakpoint ==
    \/ SwitchToBreakpointCall \/ ResizeCall \/ SaveLayoutForBreakpointCall
    \/ MutateLiveLayout \/ MutatePassedLayout

SpecBreakpoint == InitBreakpoint /\ [][NextBreakpoint]_vars

----------------------------------------------------------------------------
(* Properties of breakpoint switching *)

\* the saved layouts of the manager, by position
Layouts(manager) == [i \in 1..Len(manager.breakpoints) |-> manager.breakpoints[i].layout]

SaveSetNotify(snapshot) ==
    /\ (op' \in {"switchToBreakpoint", "resize"} /\ ret'.value) =>
          LET P == breakpointManager.currentBreakpointName
              N == breakpointManager'.currentBreakpointName
              bps == breakpointManager.breakpoints
              config == ConfigOf(bps[ConfigIndex(bps, N)])
              head == IF P = "null" THEN <<>> ELSE <<Read, Saved(P, snapshot)>>
              steps == head \o <<Active(N), Changed(N, config, P)>>
          IN  /\ op' = "switchToBreakpoint" => N = arg'.name
              /\ Len(trace'.log) >= Len(steps)
              /\ SubSeq(trace'.log, 1, Len(steps)) = steps
              /\ Cardinality({ i \in 1..Len(trace'.log) :
                                  trace'.log[i].ev = "onBreakpointChange" }) = 1
              /\ (P # "null" /\ P # N) =>
                    GetLayoutForBreakpoint(P, breakpointManager') = Stored("copy", snapshot)
              /\ (P = "null" /\ trace.host = "caller") =>
                    Layouts(breakpointManager') = Layouts(breakpointManager)
    /\ op' \in {"mutate live", "mutate passed"} => breakpointManager' = breakpointManager

\* C19 (as stated): the snapshot stored for P equals the layout at switch time
C19_SnapshotEqualsLayout == [][SaveSetNotify(state.widgets)]_vars

\* C19 (amended): the snapshot stored for P is the JSON round trip of the layout
\* at switch time: equal to it, except that an HTMLElement content comes back
\* as an empty object
C19_SnapshotIsJsonCopy == [][SaveSetNotify(JsonClone(state.widgets))]_vars

\* a switch away from an active breakpoint was made, and then the live layout was
\* mutated while the snapshot stayed
C19_Witness ==
    /\ op = "mutate live"
    /\ trace.passed.isNull
    /\ Len(trace.route) > 0
    /\ LET leg == trace.route[Len(trace.route)]
           layout == GetLayoutForBreakpoint(leg.from, breakpointManager)
       IN  /\ leg.from \notin {"null", leg.to}
           /\ ~layout.isNull
           /\ layout.widgets = JsonClone(leg.live)
           /\ layout.widgets # JsonClone(state.widgets)

\* C20: on the dashboard, after the viewport switched A -> B, the layout was
\* changed while B was active, and the viewport switched back B -> A, the live
\* layout is the one that was live when A was left and B's saved layout is the
\* one that was live when B was left (both as their JSON copies)
C20_LayoutsRestored ==
    ( /\ trace.host = "dashboard"
      /\ op = "resize"
      /\ ret.value
      /\ Len(trace.route) = 2
      /\ trace.route[1].from # "null"
      /\ trace.route[1].from # trace.route[1].to
      /\ trace.route[2].from = trace.route[1].to
      /\ trace.route[2].to = trace.route[1].from
      /\ trace.route[2].changed ) =>
        /\ state.widgets = JsonClone(trace.route[1].live)
        /\ GetLayoutForBreakpoint(trace.route[2].from, breakpointManager).widgets
              = JsonClone(trace.route[2].live)

\* C31: when a breakpoint that has no saved layout is entered from another
\* breakpoint and the column count changes, every widget of the canonical
\* state afterwards has 1 <= w <= columns and 0 <= x <= columns - w
C31_AdaptedOnFirstEntry ==
    [][ ( /\ trace.host = "dashboard"
          /\ op' = "resize"
          /\ ret'.value
          /\ breakpointManager.currentBreakpointName # "null"
          /\ GetLayoutForBreakpoint(breakpointManager'.currentBreakpointName,
                                    breakpointManager).isNull
          /\ state'.columns # state.columns ) =>
            \A i \in 1..Len(state'.widgets) :
                /\ 1 <= state'.widgets[i].w
                /\ state'.widgets[i].w <= state'.columns
                /\ 0 <= state'.widgets[i].x
                /\ state'.widgets[i].x <= state'.columns - state'.widgets[i].w ]_vars

\* C30: the saved layout of a breakpoint changes only in a switch away from it
\* or in a saveLayoutForBreakpoint for it; in a switch from P to N the saved
\* layout of N stays as it was
C30_SavedOnlyOnLeave ==
    [][ \A i \in 1..Len(breakpointManager.breakpoints) :
            LET name == breakpointManager.breakpoints[i].name
            IN  GetLayoutForBreakpoint(name, breakpointManager')
                    # GetLayoutForBreakpoint(name, breakpointManager) =>
                  \/ /\ op' \in {"switchToBreakpoint", "resize"}
                     /\ ret'.value
                     /\ breakpointManager.currentBreakpointName = name
                  \/ /\ op' = "saveLayoutForBreakpoint"
                     /\ arg'.name = name ]_vars

----------------------------------------------------------------------------
(* The page specification: one IAZDashboard with both interaction engines,     *)
(* driven by the pointer and keyboard events of the page and by its own        *)
(* addWidget, moveWidget, resizeWidget and removeWidget methods.               *)

\* new IAZDashboard(container, options): the options defaulted in the constructor
PageOptions(float) ==
    [floatMode |-> float, autoPosition |-> TRUE, batchMode |-> FALSE,
     draggable |-> TRUE, resizable |-> TRUE]

\* options.resizeHandles: the handles a frame is given
PageHandles == {"se", "nw"}

\* the dashboards drawn: one or two settled widgets (ids 0 and 1), one column each
PageLayouts ==
    {<<MakeWidget(0, [x |-> 0, y |-> 0, w |-> 1, h |-> 1], f, NoLimits)>> : f \in {NoFlags, NoMove}}
      \cup {<<MakeWidget(0, [x |-> 0, y |-> 0, w |-> 1, h |-> 1], NoFlags, NoLimits),
              MakeWidget(1, [x |-> 0, y |-> 1, w |-> 1, h |-> 1], NoFlags, NoLimits)>>}

\* the widgets a caller adds: placed by the dashboard or at a cell, of the
\* default size or of a size given
PageAdds ==
    [pos : {[x |-> Undef, y |-> Undef], [x |-> 2 * MaxX, y |-> 0]},
     size : {[w |-> Undef, h |-> Undef], [w |-> 1, h |-> 1]}]

\* the positions of the pointer (half units)
PagePointers == [x : {1, 5}, y : {1, 5}]

\* e.button, e.pointerType of a pointerdown event
PageButtons == {[button |-> 0, pointerType |-> "mouse"], [button |-> 2, pointerType |-> "mouse"],
                [button |-> 0, pointerType |-> "touch"]}

InitPage ==
    \E ws \in PageLayouts, cols \in ColumnChoices, float \in BOOLEAN :
        /\ op = "new IAZDashboard"
        /\ pc = "done"
        /\ widgets = ws
        /\ columns = cols
        /\ arg = Idle
        /\ ret = NoRet
        /\ state = [columns |-> cols, widgets |-> ws]
        /\ options = PageOptions(float)
        /\ dragEngine = NoSession
        /\ resizeEngine = NoSession
        /\ breakpointManager = [isNull |-> TRUE]
        /\ window = [innerWidth |-> 0, clientWidth |-> 0]
        /\ trace = [page |-> "IAZDashboard", calls |-> 0, last |-> NoEffects, nextId |-> 2]

\* the bookkeeping of an event handler or a method of the dashboard
Handled(name, a, value, effects, st) ==
    /\ trace.calls < MaxCalls
    /\ op' = name
    /\ arg' = a
    /\ ret' = [value |-> value]
    /\ state' = st
    /\ trace' = [trace EXCEPT !.calls = @ + 1, !.last = effects,
                              !.nextId = IF name = "addWidget" THEN @ + 1 ELSE @]
    /\ UNCHANGED <<pc, widgets, columns, options, breakpointManager, window>>

\* e.button !== 0 && e.pointerType === 'mouse': the handler returns
Ignored(e) == e.button # 0 /\ e.pointerType = "mouse"

\* renderWidget: the frame's pointerdown handler, attached when the dashboard is
\* draggable and the widget neither locked nor noMove
PointerDownFrame ==
    \E i \in 1..Len(state.widgets), e \in PageButtons :
        LET widget == state.widgets[i]
            r == StartDrag(widget.id, 2 * widget.x + 1, 2 * widget.y + 1, dragEngine, state)
        IN  /\ options.draggable /\ ~widget.locked /\ ~widget.noMove
            /\ IF Ignored(e)
               THEN /\ Handled("pointerdown frame", [id |-> widget.id, e |-> e], FALSE,
                               NoEffects, state)
                    /\ UNCHANGED dragEngine
               ELSE /\ Handled("pointerdown frame", [id |-> widget.id, e |-> e], r.value,
                               r.effects, Written(r.effects))
                    /\ dragEngine' = r.engine
            /\ UNCHANGED resizeEngine

\* renderWidget: the pointerdown handler of a resize handle, attached when the
\* dashboard is resizable and the widget neither locked nor noResize
PointerDownHandle ==
    \E i \in 1..Len(state.widgets), handle \in PageHandles, e \in PageButtons :
        LET widget == state.widgets[i]
            r == StartResize(widget.id, handle, 2 * widget.x + 1, 2 * widget.y + 1,
                             resizeEngine, state)
        IN  /\ options.resizable /\ ~widget.locked /\ ~widget.noResize
            /\ IF Ignored(e)
               THEN /\ Handled("pointerdown handle", [id |-> widget.id, handle |-> handle, e |-> e], FALSE,
                               NoEffects, state)
                    /\ UNCHANGED resizeEngine
               ELSE /\ Handled("pointerdown handle", [id |-> widget.id, handle |-> handle, e |-> e], r.value,
                               r.effects, Written(r.effects))
                    /\ resizeEngine' = r.engine
            /\ UNCHANGED dragEngine

\* setupGlobalPointerHandlers: onPointerMove
PointerMove ==
    \E p \in PagePointers :
        IF IsDragging(dragEngine)
        THEN LET r == UpdateDrag(p.x, p.y, dragEngine, columns)
             IN  /\ Handled("pointermove", p, FALSE, r.effects, Written(r.effects))
                 /\ dragEngine' = r.engine
                 /\ UNCHANGED resizeEngine
        ELSE IF IsResizing(resizeEngine)
        THEN LET r == UpdateResize(p.x, p.y, resizeEngine, columns)
             IN  /\ Handled("pointermove", p, FALSE, r.effects, Written(r.effects))
                 /\ resizeEngine' = r.engine
                 /\ UNCHANGED dragEngine
        ELSE /\ Handled("pointermove", p, FALSE, NoEffects, state)
             /\ UNCHANGED <<dragEngine, resizeEngine>>

\* setupGlobalPointerHandlers: onPointerUp
PointerUp ==
    IF IsDragging(dragEngine)
    THEN LET r == EndDrag(dragEngine, state, columns)
         IN  /\ Handled("pointerup", Idle, r.value, r.effects, Written(r.effects))
             /\ dragEngine' = r.engine
             /\ UNCHANGED resizeEngine
    ELSE IF IsResizing(resizeEngine)
    THEN LET r == EndResize(resizeEngine, state)
         IN  /\ Handled("pointerup", Idle, r.value, r.effects, Written(r.effects))
             /\ resizeEngine' = r.engine
             /\ UNCHANGED dragEngine
    ELSE /\ Handled("pointerup", Idle, FALSE, NoEffects, state)
         /\ UNCHANGED <<dragEngine, resizeEngine>>

\* setupGlobalPointerHandlers: onKeyDown with e.key === 'Escape'
KeyDownEscape ==
    IF IsDragging(dragEngine)
    THEN LET r == CancelDrag(dragEngine)
         IN  /\ Handled("keydown Escape", Idle, FALSE, r.effects, Written(r.effects))
             /\ dragEngine' = r.engine
             /\ UNCHANGED resizeEngine
    ELSE IF IsResizing(resizeEngine)
    THEN LET r == CancelResize(resizeEngine)
         IN  /\ Handled("keydown Escape", Idle, FALSE, r.effects, Written(r.effects))
             /\ resizeEngine' = r.engine
             /\ UNCHANGED dragEngine
    ELSE /\ Handled("keydown Escape", Idle, FALSE, NoEffects, state)
         /\ UNCHANGED <<dragEngine, resizeEngine>>

\* dashboard.addWidget(widget)
PageAddWidget ==
    \E a \in PageAdds :
        LET widget == MakeWidget(trace.nextId,
                                 [x |-> a.pos.x, y |-> a.pos.y, w |-> a.size.w, h |-> a.size.h],
                                 NoFlags, NoLimits)
            r == AddWidget(widget, FALSE, FALSE, state, options)
        IN  /\ Len(state.widgets) < MaxWidgets
            /\ Handled("addWidget", [widget |-> widget], TRUE,
                       Effects(<<Emit("widget:add", widget.id, FALSE)>>
                                 \o (IF Len(r.colliding) > 0 /\ ~options.batchMode
                                     THEN <<Emit("layout:change", Undef, FALSE)>> ELSE <<>>),
                               <<>>),
                       [state EXCEPT !.widgets = r.widgets])
            /\ UNCHANGED <<dragEngine, resizeEngine>>

\* dashboard.moveWidget(id, x, y)
PageMoveWidget ==
    \E i \in 1..Len(state.widgets), x2 \in FewRequests, y2 \in {0} :
        LET id == state.widgets[i].id
            r == DashMoveWidget(id, x2, y2, state, options)
        IN  /\ Handled("moveWidget", [id |-> id, x |-> x2, y |-> y2], r.value,
                       Effects(IF r.value
                               THEN <<Emit("widget:move", id, FALSE),
                                      Emit("layout:change", Undef, FALSE)>>
                               ELSE <<>>, <<>>),
                       [state EXCEPT !.widgets = r.widgets])
            /\ UNCHANGED <<dragEngine, resizeEngine>>

\* dashboard.resizeWidget(id, w, h)
PageResizeWidget ==
    \E i \in 1..Len(state.widgets), w2 \in FewRequests, h2 \in {2} :
        LET id == state.widgets[i].id
            r == DashResizeWidget(id, w2, h2, state, options)
        IN  /\ Handled("resizeWidget", [id |-> id, w |-> w2, h |-> h2], r.value,
                       Effects(IF r.value
                               THEN <<Emit("widget:resize", id, FALSE),
                                      Emit("layout:change", Undef, FALSE)>>
                               ELSE <<>>, <<>>),
                       [state EXCEPT !.widgets = r.widgets])
            /\ UNCHANGED <<dragEngine, resizeEngine>>

\* dashboard.removeWidget(id)
PageRemoveWidget ==
    \E i \in 1..Len(state.widgets) :
        LET id == state.widgets[i].id
        IN  /\ Handled("removeWidget", [id |-> id], TRUE,
                       Effects(<<Emit("widget:remove", id, FALSE)>>
                                 \o (IF options.floatMode
                                     THEN <<Emit("layout:change", Undef, FALSE)>> ELSE <<>>),
                               <<>>),
                       RemoveWidget(id, state, options))
            /\ UNCHANGED <<dragEngine, resizeEngine>>

NextPage ==
    \/ PointerDownFrame \/ PointerDownHandle \/ PointerMove \/ PointerUp \/ KeyDownEscape
    \/ PageAddWidget \/ PageMoveWidget \/ PageResizeWidget \/ PageRemoveWidget

SpecPage == InitPage /\ [][NextPage]_vars

\* a session is active in one of the two engines
SessionActive == IsDragging(dragEngine) \/ IsResizing(resizeEngine)

\* the handler that ran last started a session
SessionStarted ==
    \E i \in 1..Len(trace.last.emitted) : trace.last.emitted[i].event = "interaction:start"

\* C23: no session is started while a drag or resize session is active, and
\* isDragging and isResizing are never both true
C23_OneSessionAtATime ==
    [][ /\ ~(IsDragging(dragEngine') /\ IsResizing(resizeEngine'))
        /\ SessionActive => ~SessionStarted' ]_vars

\* the handler that ran last wrote the canonical state
Committed == Len(trace.last.setState) > 0

\* the handler that ran last emitted layout:change
LayoutChangeEmitted ==
    \E i \in 1..Len(trace.last.emitted) : trace.last.emitted[i].event = "layout:change"

\* C24: a drag or resize session that ends with a write to the canonical state
\* is followed by a layout:change notification
C24_CommitNotified ==
    (op = "pointerup" /\ Committed) => LayoutChangeEmitted

\* w >= max(1, minW ?? 1), h >= max(1, minH ?? 1), x >= 0, y >= 0, x + w <= columns
Settled(w) ==
    /\ w.w >= Max(1, Coalesce(w.minW, 1))
    /\ w.h >= Max(1, Coalesce(w.minH, 1))
    /\ w.x >= 0
    /\ w.y >= 0
    /\ w.x + w.w <= state.columns

\* C25: after any sequence of addWidget, moveWidget, resizeWidget, removeWidget
\* and committed sessions, every widget of the canonical state is settled
C25_SettledWidgets ==
    \A i \in 1..Len(state.widgets) : Settled(state.widgets[i])

----------------------------------------------------------------------------
(* The listening specification: a BreakpointManager attached to the window's   *)
(* resize event.  window holds the clock (ms), the timers set and not yet run  *)
(* or cleared, and the listeners of the resize event.  A timer runs once its   *)
(* delay has elapsed, before any later event is handled.                       *)

\* the clock advances by Tick, up to MaxTime; MaxSteps events are followed
Tick == 75
MaxTime == 450
MaxSteps == 7

\* clearTimeout(id)
ClearTimeout(id, win) == [win EXCEPT !.timers = {t \in @ : t.id # id}]

\* window.setTimeout(callback, delay): the id returned is win.nextTimer
SetTimeout(delay, win) ==
    [win EXCEPT !.timers = @ \cup {[id |-> win.nextTimer, due |-> win.now + delay]},
                !.nextTimer = @ + 1]

\* (mutant: the previous timeout is left to run)
HandleResizeNoClear(manager, win) ==
    [manager |-> [manager EXCEPT !.resizeTimeout = win.nextTimer],
     window |-> SetTimeout(RESIZE_DEBOUNCE, win)]

\* handleResize()
HandleResize(manager, win) ==
    LET cleared == IF manager.resizeTimeout # Undef
                   THEN ClearTimeout(manager.resizeTimeout, win) ELSE win
    IN  [manager |-> [manager EXCEPT !.resizeTimeout = win.nextTimer],
         window |-> SetTimeout(RESIZE_DEBOUNCE, cleared)]

\* startListening(): the manager, the window, the canonical state and what
\* checkAndSwitch() did
StartListening(manager, st, win, host) ==
    IF manager.resizeHandler # "null"
    THEN [manager |-> manager, window |-> win, state |-> st, value |-> FALSE, log |-> <<>>,
          checked |-> FALSE]
    ELSE LET r == CheckAndSwitch([manager EXCEPT !.resizeHandler = "handleResize"],
                                 st, win, host)
         IN  [manager |-> r.manager,
              window |-> [win EXCEPT !.listeners = @ \cup {"handleResize"}],
              state |-> r.state, value |-> r.value, log |-> r.log, checked |-> TRUE]

\* (mutant: the pending timeout is left to run)
StopListeningKeepingTimer(manager, win) ==
    IF manager.resizeHandler = "null"
    THEN [manager |-> manager, window |-> win]
    ELSE [manager |-> [manager EXCEPT !.resizeHandler = "null"],
          window |-> [win EXCEPT !.listeners = @ \ {manager.resizeHandler}]]

\* stopListening()
StopListening(manager, win) ==
    IF manager.resizeHandler = "null"
    THEN [manager |-> manager, window |-> win]
    ELSE LET removed == [win EXCEPT !.listeners = @ \ {manager.resizeHandler}]
         IN  IF manager.resizeTimeout # Undef
             THEN [manager |-> [manager EXCEPT !.resizeHandler = "null",
                                               !.resizeTimeout = Undef],
                   window |-> ClearTimeout(manager.resizeTimeout, removed)]
             ELSE [manager |-> [manager EXCEPT !.resizeHandler = "null"],
                   window |-> removed]

\* destroy()
Destroy(manager, win) ==
    LET r == StopListening(manager, win)
    IN  [manager |-> [r.manager EXCEPT !.currentBreakpointName = "null"],
         window |-> r.window]

\* what is remembered of the resize events handled that came each within the
\* delay of the one before: how many, when the last came and the viewport
\* width then, the evaluations made by timers since the first, when and with
\* which width the last was made, and the callbacks made in them
NoBurst == [events |-> 0, last |-> 0, width |-> 0, evals |-> 0, evalAt |-> 0,
            evalWidth |-> 0, callbacks |-> 0]

\* the timers whose delay has elapsed
Due(win) == {t \in win.timers : t.due <= win.now}

\* the callbacks recorded in a log
Callbacks(log) == Cardinality({i \in 1..Len(log) : log[i].ev = "onBreakpointChange"})

\* new BreakpointManager(breakpoints, getCurrentLayout, onBreakpointChange),
\* listening (startListening() called) or not
InitListen ==
    \E v \in 0..2, listening \in BOOLEAN :
        LET win == [innerWidth |-> v, clientWidth |-> v, now |-> 0, timers |-> {},
                    nextTimer |-> 1, listeners |-> {}]
            st == [columns |-> 0, widgets |-> <<>>]
            manager == NewBreakpointManager(SwitchBreakpoints)
            r == IF listening THEN StartListening(manager, st, win, "caller")
                 ELSE [manager |-> manager, window |-> win, state |-> st, log |-> <<>>]
        IN  /\ op = "new BreakpointManager"
            /\ pc = "done"
            /\ widgets = <<>>
            /\ columns = 0
            /\ arg = Idle
            /\ ret = NoRet
            /\ state = r.state
            /\ options = Idle
            /\ dragEngine = [isNull |-> TRUE]
            /\ resizeEngine = [isNull |-> TRUE]
            /\ breakpointManager = r.manager
            /\ window = r.window
            /\ trace = [host |-> "caller", steps |-> 0, log |-> r.log, burst |-> NoBurst,
                        started |-> listening, destroys |-> 0, destroyed |-> FALSE,
                        cleared |-> Undef, evals |-> 0]

\* the bookkeeping of a step of the page
Stepped(name, a, manager, win, st, log, burst) ==
    /\ trace.steps < MaxSteps
    /\ op' = name
    /\ arg' = a
    /\ ret' = NoRet
    /\ state' = st
    /\ breakpointManager' = manager
    /\ window' = win
    /\ trace' = [trace EXCEPT !.steps = @ + 1, !.log = log, !.burst = burst,
                              !.started = @ \/ name = "startListening",
                              !.destroys = IF name = "destroy" THEN @ + 1 ELSE @,
                              !.destroyed = IF name = "destroy" THEN TRUE
                                            ELSE IF name = "startListening" THEN FALSE ELSE @,
                              !.cleared = IF name = "destroy" /\ window.timers # win.timers
                                          THEN CHOOSE d \in {t.due : t \in window.timers \ win.timers} :
                                                  TRUE
                                          ELSE IF name = "startListening" THEN Undef ELSE @,
                              !.evals = IF name = "timer" THEN @ + 1 ELSE @]
    /\ UNCHANGED <<pc, widgets, columns, options, dragEngine, resizeEngine>>

\* the viewport takes width v and the resize event is dispatched to its listeners
ResizeEvent ==
    \E v \in 0..2 :
        LET sized == [window EXCEPT !.innerWidth = v, !.clientWidth = v]
            r == IF "handleResize" \in window.listeners
                 THEN HandleResize(breakpointManager, sized)
                 ELSE [manager |-> breakpointManager, window |-> sized]
            within == trace.burst.events > 0 /\ window.now - trace.burst.last < RESIZE_DEBOUNCE
        IN  /\ Due(window) = {}
            /\ Stepped("resize event", [width |-> v], r.manager, r.window, state, <<>>,
                       IF "handleResize" \notin window.listeners THEN NoBurst
                       ELSE IF within
                       THEN [trace.burst EXCEPT !.events = @ + 1, !.last = window.now,
                                                !.width = GetViewportWidth(sized)]
                       ELSE [NoBurst EXCEPT !.events = 1, !.last = window.now,
                                            !.width = GetViewportWidth(sized)])

\* a timer whose delay has elapsed runs: () => this.checkAndSwitch()
TimerRuns ==
    \E t \in Due(window) :
        LET r == CheckAndSwitch(breakpointManager, state, window, trace.host)
        IN  Stepped("timer", [id |-> t.id], r.manager,
                    [window EXCEPT !.timers = @ \ {t}], r.state,
                    r.log,
                    [trace.burst EXCEPT !.evals = @ + 1, !.evalAt = window.now,
                                        !.evalWidth = GetViewportWidth(window),
                                        !.callbacks = @ + Callbacks(r.log)])

\* Tick ms pass with no event
Advance ==
    /\ Due(window) = {}
    /\ window.now + Tick <= MaxTime
    /\ Stepped("advance", Idle, breakpointManager, [window EXCEPT !.now = @ + Tick], state,
               <<>>, trace.burst)

StartListeningCall ==
    LET r == StartListening(breakpointManager, state, window, trace.host)
    IN  Stepped("startListening", Idle, r.manager, r.window, r.state,
                r.log, NoBurst)

StopListeningCall ==
    LET r == StopListening(breakpointManager, window)
    IN  Stepped("stopListening", Idle, r.manager, r.window, state, <<>>, NoBurst)

DestroyCall ==
    LET r == Destroy(breakpointManager, window)
    IN  Stepped("destroy", Idle, r.manager, r.window, state, <<>>, NoBurst)

NextListen ==
    \/ ResizeEvent \/ TimerRuns \/ Advance
    \/ StartListeningCall \/ StopListeningCall \/ DestroyCall

SpecListen == InitListen /\ [][NextListen]_vars

\* C21: resize events that come each within the debounce delay of the one
\* before cause exactly one evaluation: none while the delay of the last runs
\* (one timer is pending, due RESIZE_DEBOUNCE after the last event), then one,
\* made with the viewport width of the last event, with at most one callback
C21_OneEvaluationPerBurst ==
    trace.burst.events > 0 =>
        /\ trace.burst.evals <= 1
        /\ trace.burst.evals = 0 =>
              /\ Cardinality(window.timers) = 1
              /\ \A t \in window.timers : t.due = trace.burst.last + RESIZE_DEBOUNCE
        /\ trace.burst.evals = 1 =>
              /\ window.timers = {}
              /\ trace.burst.evalAt >= trace.burst.last + RESIZE_DEBOUNCE
              /\ trace.burst.evalWidth = trace.burst.width
              /\ trace.burst.callbacks <= 1

\* three events, each within the delay of the one before and not all at once,
\* then the one evaluation, which switched
C21_Witness ==
    /\ trace.burst.events = 3
    /\ trace.burst.last > 0
    /\ trace.burst.evals = 1
    /\ trace.burst.callbacks = 1
    /\ op = "timer"

\* C22: once destroy() has run, the manager has no listener and no timer left,
\* and until startListening() is called again no evaluation is made and no
\* callback runs, whatever resize events arrive and however long one waits
C22_NothingAfterDestroy ==
    [][ (trace.destroyed /\ op' # "startListening") =>
            /\ window.timers = {} /\ window.listeners = {}
            /\ window'.timers = {} /\ window'.listeners = {}
            /\ trace'.evals = trace.evals
            /\ Callbacks(trace'.log) = 0
            /\ breakpointManager'.currentBreakpointName = "null" ]_vars

\* destroy() cleared a pending timer, and the time that timer was due has
\* passed with a further resize event
C22_Witness ==
    /\ trace.destroyed
    /\ trace.cleared # Undef
    /\ window.now >= trace.cleared
    /\ op = "resize event"

\* destroy() ran on a manager that never listened, and ran twice
C22_WitnessNeverStarted ==
    /\ ~trace.started
    /\ trace.destroys = 2

----------------------------------------------------------------------------
(* The loading specification: dashboard.load(json) and dashboard.loadState on  *)
(* payloads well formed and malformed.  A JSON value is held with its type;    *)
(* in this specification state.widgets is such a value, since loadState can    *)
(* leave there a value that is no list.                                        *)

\* a value that is a list of widgets, and a value of another type
JsList(ws) == [type |-> "array", items |-> ws]
JsOther(type) == [type |-> type, items |-> <<>>]

\* an object payload: the widgets field (type "absent": no such field) and the
\* columns field (Undef: no such field)
JsObject(ws, cols) == [type |-> "object", widgets |-> ws, columns |-> cols]

\* a payload that is no object: null, a number, or undefined
JsPayload(type) == [type |-> type, widgets |-> JsOther("absent"), columns |-> Undef]

\* the widget list a persisted state holds
SavedLayout ==
    <<WithContent(MakeWidget(0, [x |-> 0, y |-> 1, w |-> 1, h |-> 1], NoFlags, NoLimits),
                  "element")>>

\* the payloads given to loadState
Payloads ==
    {JsPayload(t) : t \in {"null", "number", "undefined"}}
      \cup {JsObject(ws, cols) :
              ws \in {JsOther("absent"), JsOther("null"), JsOther("number"), JsList(SavedLayout)},
              cols \in {Undef, MaxSpan}}

\* the texts given to load
Texts == {"invalid json", "null", "5", "{}", "{\"widgets\":5}", "{\"widgets\":null}",
          "{\"columns\":2,\"widgets\":[{\"id\":0,\"x\":0,\"y\":1,\"w\":1,\"h\":1}]}"}

\* JSON.parse(text): the value, or a SyntaxError thrown
JsonParse(text) ==
    CASE text = "null" -> [thrown |-> "none", value |-> JsPayload("null")]
      [] text = "5" -> [thrown |-> "none", value |-> JsPayload("number")]
      [] text = "{}" -> [thrown |-> "none", value |-> JsObject(JsOther("absent"), Undef)]
      [] text = "{\"widgets\":5}" ->
            [thrown |-> "none", value |-> JsObject(JsOther("number"), Undef)]
      [] text = "{\"widgets\":null}" ->
            [thrown |-> "none", value |-> JsObject(JsOther("null"), Undef)]
      [] text = "{\"columns\":2,\"widgets\":[{\"id\":0,\"x\":0,\"y\":1,\"w\":1,\"h\":1}]}" ->
            [thrown |-> "none",
             value |-> JsObject(JsList(<<MakeWidget(0, [x |-> 0, y |-> 1, w |-> 1, h |-> 1],
                                                    NoFlags, NoLimits)>>), MaxSpan)]
      [] OTHER -> [thrown |-> "SyntaxError", value |-> JsPayload("undefined")]

\* JSON.parse(JSON.stringify(payload)): undefined is stringified to undefined,
\* which does not parse
JsonCopy(payload) ==
    IF payload.type = "undefined"
    THEN [thrown |-> "SyntaxError", value |-> payload]
    ELSE [thrown |-> "none",
          value |-> IF payload.widgets.type = "array"
                    THEN [payload EXCEPT !.widgets.items = JsonClone(@)]
                    ELSE payload]

\* {...this.state, ...copy}: the fields of an object replace the state's
Merge(st, copy) ==
    IF copy.type # "object" THEN st
    ELSE [columns |-> Coalesce(copy.columns, st.columns),
          widgets |-> IF copy.widgets.type = "absent" THEN st.widgets ELSE copy.widgets]

\* loadState(state, {silent}): the canonical state left, the error thrown and
\* the events emitted
LoadState(payload, silent, st, opts) ==
    LET copy == JsonCopy(payload)
        merged == Merge(st, copy.value)
    IN  IF copy.thrown # "none"
        THEN [state |-> st, thrown |-> copy.thrown, emitted |-> <<>>]
        ELSE IF merged.widgets.type # "array"
        THEN [state |-> merged, thrown |-> "TypeError", emitted |-> <<>>]
        ELSE [state |-> IF opts.floatMode
                        THEN [merged EXCEPT !.widgets.items = Compact(@)] ELSE merged,
              thrown |-> "none",
              emitted |-> IF silent THEN <<>> ELSE <<Emit("layout:change", Undef, FALSE)>>]

\* load(json): the error of JSON.parse or of loadState is logged and thrown again
Load(json, st, opts) ==
    LET parsed == JsonParse(json)
    IN  IF parsed.thrown # "none"
        THEN [state |-> st, thrown |-> parsed.thrown, emitted |-> <<>>]
        ELSE LoadState(parsed.value, FALSE, st, opts)

InitLoad ==
    \E ws \in PageLayouts, cols \in ColumnChoices, float \in BOOLEAN :
        /\ op = "new IAZDashboard"
        /\ pc = "done"
        /\ widgets = ws
        /\ columns = cols
        /\ arg = Idle
        /\ ret = NoRet
        /\ state = [columns |-> cols, widgets |-> JsList(ws)]
        /\ options = PageOptions(float)
        /\ dragEngine = NoSession
        /\ resizeEngine = NoSession
        /\ breakpointManager = [isNull |-> TRUE]
        /\ window = [innerWidth |-> 0, clientWidth |-> 0]
        /\ trace = [page |-> "load", calls |-> 0, before |-> state, emitted |-> <<>>,
                    malformed |-> FALSE]

\* the bookkeeping of a call that loads
Loaded(name, a, r, malformed) ==
    /\ trace.calls < MaxCalls
    /\ op' = name
    /\ arg' = a
    /\ ret' = [thrown |-> r.thrown]
    /\ state' = r.state
    /\ trace' = [trace EXCEPT !.calls = @ + 1, !.before = state, !.emitted = r.emitted,
                              !.malformed = malformed]
    /\ UNCHANGED <<pc, widgets, columns, options, dragEngine, resizeEngine,
                   breakpointManager, window>>

\* a payload that is not an object, or whose widgets field is missing or no list
Malformed(payload) == payload.type # "object" \/ payload.widgets.type # "array"

LoadCall ==
    \E json \in Texts :
        Loaded("load", [json |-> json], Load(json, state, options),
               JsonParse(json).thrown # "none" \/ Malformed(JsonParse(json).value))

LoadStateCall ==
    \E payload \in Payloads, silent \in BOOLEAN :
        Loaded("loadState", [state |-> payload, silent |-> silent],
               LoadState(payload, silent, state, options), Malformed(payload))

NextLoad == LoadCall \/ LoadStateCall

SpecLoad == InitLoad /\ [][NextLoad]_vars

\* C26: load with invalid JSON and loadState with a payload that is no object
\* or whose widgets field is missing or no list are rejected with an error, and
\* leave the canonical state as it was
C26_MalformedRejected ==
    (op \in {"load", "loadState"} /\ trace.malformed) =>
        /\ ret.thrown # "none"
        /\ state = trace.before

\* load with invalid JSON throws and leaves the canonical state as it was
C26_InvalidJsonRejected ==
    (op = "load" /\ JsonParse(arg.json).thrown # "none") =>
        /\ ret.thrown = "SyntaxError"
        /\ state = trace.before

----------------------------------------------------------------------------
(* The responsive specification: an IAZDashboard with breakpoints and both     *)
(* interaction engines.  The engines are constructed with the column count of  *)
(* the options before the breakpoint manager makes its first switch; columns   *)
(* is the count the engines hold in their options.  The change callback        *)
(* assigns the new count to a property columns of each engine object, which    *)
(* no method of the engines reads, so nothing of that assignment is kept.      *)

\* new IAZDashboard(container, {columns: 2, breakpoints, widgets}) at a viewport
\* of width v: init() constructs the engines, then the manager, whose
\* startListening() runs checkAndSwitch() at once
InitResponsive ==
    \E ws \in PageLayouts, v \in 0..2, float \in BOOLEAN :
        LET win == [innerWidth |-> v, clientWidth |-> v]
            r == CheckAndSwitch(NewBreakpointManager(SwitchBreakpoints),
                                [columns |-> 2, widgets |-> ws], win, "dashboard")
        IN  /\ op = "new IAZDashboard"
            /\ pc = "done"
            /\ widgets = ws
            /\ columns = 2
            /\ arg = Idle
            /\ ret = NoRet
            /\ state = r.state
            /\ options = PageOptions(float)
            /\ dragEngine = NoSession
            /\ resizeEngine = NoSession
            /\ breakpointManager = r.manager
            /\ window = win
            /\ trace = [host |-> "dashboard", calls |-> 0, log |-> r.log, passed |-> NoLayout,
                        route |-> NoRoute, changed |-> FALSE, last |-> NoEffects,
                        nextId |-> 2]

NextResponsive ==
    \/ ResizeCall
    \/ PointerDownFrame \/ PointerDownHandle \/ PointerMove \/ PointerUp \/ KeyDownEscape

SpecResponsive == InitResponsive /\ [][NextResponsive]_vars

\* C37: the proposals of a drag or resize session, and the geometry a session
\* commits, lie within the column count of the canonical state
C37_SessionsUseCurrentColumns ==
    /\ IsDragging(dragEngine) =>
          dragEngine.currentGridX + dragEngine.widget.w <= state.columns
    /\ IsResizing(resizeEngine) =>
          resizeEngine.currentX + resizeEngine.currentW <= state.columns
    /\ (op = "pointerup" /\ Committed) =>
          \A i \in 1..Len(state.widgets) :
              state.widgets[i].x + state.widgets[i].w <= state.columns

----------------------------------------------------------------------------
(* The auto-scroll specification: one engine object with its two fields, the   *)
(* session (state) and autoScrollInterval, driven through its public methods   *)
(* with pointer positions in pixels; window holds the intervals set and not     *)
(* cleared, each with the scrollX and scrollY its callback closed over, and    *)
(* the scroll position of the container.  checkAutoScroll, stopAutoScroll and  *)
(* cleanup are the same code in DragEngine and in ResizeEngine.                *)

\* half a column pitch, in pixels; the scroll range of the container
HalfPx == 50
MaxScroll == 20

\* the number of method calls and ticks of a run
MaxScrollSteps == 5

\* container.getBoundingClientRect(): a container of three columns and rows
ContainerRect == [left |-> 0, top |-> 0, right |-> 6 * HalfPx, bottom |-> 6 * HalfPx]

\* the pointer positions of the updates: at an edge or in the middle
ScrollPointers ==
    [x : {ContainerRect.left, 3 * HalfPx, ContainerRect.right},
     y : {ContainerRect.top, 3 * HalfPx, ContainerRect.bottom}]

\* checkAutoScroll: scrollX and scrollY for a pointer position
ScrollFor(clientX, clientY) ==
    [scrollX |-> IF clientX < ContainerRect.left + AUTO_SCROLL_THRESHOLD
                 THEN 0 - AUTO_SCROLL_SPEED
                 ELSE IF clientX > ContainerRect.right - AUTO_SCROLL_THRESHOLD
                      THEN AUTO_SCROLL_SPEED ELSE 0,
     scrollY |-> IF clientY < ContainerRect.top + AUTO_SCROLL_THRESHOLD
                 THEN 0 - AUTO_SCROLL_SPEED
                 ELSE IF clientY > ContainerRect.bottom - AUTO_SCROLL_THRESHOLD
                      THEN AUTO_SCROLL_SPEED ELSE 0]

\* stopAutoScroll()
StopAutoScroll(engine, win) ==
    IF engine.autoScrollInterval # Undef
    THEN [engine |-> [engine EXCEPT !.autoScrollInterval = Undef],
          window |-> [win EXCEPT !.intervals =
                                    {t \in @ : t.id # engine.autoScrollInterval}]]
    ELSE [engine |-> engine, window |-> win]

\* (mutant: the interval is left running when the pointer is away from the edges)
CheckAutoScrollNoStop(clientX, clientY, engine, win) ==
    LET scroll == ScrollFor(clientX, clientY)
    IN  IF (scroll.scrollX # 0 \/ scroll.scrollY # 0) /\ engine.autoScrollInterval = Undef
        THEN [engine |-> [engine EXCEPT !.autoScrollInterval = win.nextTimer],
              window |-> [win EXCEPT !.intervals = @ \cup {[id |-> win.nextTimer,
                                                             scrollX |-> scroll.scrollX,
                                                             scrollY |-> scroll.scrollY]},
                                     !.nextTimer = @ + 1]]
        ELSE [engine |-> engine, window |-> win]

\* checkAutoScroll(clientX, clientY)
CheckAutoScroll(clientX, clientY, engine, win) ==
    LET scroll == ScrollFor(clientX, clientY)
    IN  IF scroll.scrollX # 0 \/ scroll.scrollY # 0
        THEN IF engine.autoScrollInterval = Undef
             THEN [engine |-> [engine EXCEPT !.autoScrollInterval = win.nextTimer],
                   window |-> [win EXCEPT !.intervals = @ \cup {[id |-> win.nextTimer,
                                                                  scrollX |-> scroll.scrollX,
                                                                  scrollY |-> scroll.scrollY]},
                                          !.nextTimer = @ + 1]]
             ELSE [engine |-> engine, window |-> win]
        ELSE StopAutoScroll(engine, win)

\* cleanup(): of what it removes, the interval
Cleanup(engine, win) == StopAutoScroll(engine, win)

\* the session of the engine is active
InSession(engine) ==
    IF "isDragging" \in DOMAIN engine.state THEN IsDragging(engine.state)
    ELSE IF "isResizing" \in DOMAIN engine.state THEN IsResizing(engine.state)
    ELSE FALSE

\* new DragEngine(...) or new ResizeEngine(...) over a dashboard of one widget
InitScroll ==
    \E kind \in {"DragEngine", "ResizeEngine"}, g \in {[x |-> 1, y |-> 1, w |-> 1, h |-> 1]} :
        /\ op = "new " \o kind
        /\ pc = "done"
        /\ widgets = <<MakeWidget(0, g, NoFlags, NoLimits)>>
        /\ columns = 3
        /\ arg = Idle
        /\ ret = NoRet
        /\ state = [columns |-> 3, widgets |-> widgets]
        /\ options = Idle
        /\ dragEngine = IF kind = "DragEngine"
                        THEN [state |-> NoSession, autoScrollInterval |-> Undef]
                        ELSE [isNull |-> TRUE]
        /\ resizeEngine = IF kind = "ResizeEngine"
                          THEN [state |-> NoSession, autoScrollInterval |-> Undef]
                          ELSE [isNull |-> TRUE]
        /\ breakpointManager = [isNull |-> TRUE]
        /\ window = [innerWidth |-> 0, clientWidth |-> 0, intervals |-> {}, nextTimer |-> 1,
                     scrollLeft |-> 0, scrollTop |-> 0]
        /\ trace = [engine |-> kind, steps |-> 0, last |-> NoEffects,
                    pointer |-> [x |-> Undef, y |-> Undef],
                    ticked |-> [scrollX |-> 0, scrollY |-> 0]]

\* the bookkeeping of a method call of the engine
Scrolled(name, a, value, effects, win, pointer) ==
    /\ trace.steps < MaxScrollSteps
    /\ op' = name
    /\ arg' = a
    /\ ret' = [value |-> value]
    /\ state' = Written(effects)
    /\ window' = win
    /\ trace' = [trace EXCEPT !.steps = @ + 1, !.last = effects, !.pointer = pointer]
    /\ UNCHANGED <<pc, widgets, columns, options, breakpointManager>>

ScrollStartDrag ==
    /\ trace.engine = "DragEngine"
    /\ \E p \in {[x |-> 3 * HalfPx, y |-> 3 * HalfPx]} :
          LET r == StartDrag(0, p.x \div HalfPx, p.y \div HalfPx, dragEngine.state, state)
          IN  /\ Scrolled("startDrag", p, r.value, r.effects, window, trace.pointer)
              /\ dragEngine' = [dragEngine EXCEPT !.state = r.engine]
    /\ UNCHANGED resizeEngine

ScrollUpdateDrag ==
    /\ trace.engine = "DragEngine"
    /\ \E p \in ScrollPointers :
          LET r == UpdateDrag(p.x \div HalfPx, p.y \div HalfPx, dragEngine.state, columns)
              c == CheckAutoScroll(p.x, p.y, [dragEngine EXCEPT !.state = r.engine], window)
          IN  IF IsDragging(dragEngine.state)
              THEN /\ Scrolled("updateDrag", p, FALSE, r.effects, c.window, p)
                   /\ dragEngine' = c.engine
              ELSE /\ Scrolled("updateDrag", p, FALSE, NoEffects, window, trace.pointer)
                   /\ UNCHANGED dragEngine
    /\ UNCHANGED resizeEngine

ScrollEndDrag ==
    /\ trace.engine = "DragEngine"
    /\ LET r == EndDrag(dragEngine.state, state, columns)
           c == Cleanup([dragEngine EXCEPT !.state = r.engine], window)
       IN  IF IsDragging(dragEngine.state)
           THEN /\ Scrolled("endDrag", Idle, r.value, r.effects, c.window, trace.pointer)
                /\ dragEngine' = c.engine
           ELSE /\ Scrolled("endDrag", Idle, FALSE, NoEffects, window, trace.pointer)
                /\ UNCHANGED dragEngine
    /\ UNCHANGED resizeEngine

ScrollCancelDrag ==
    /\ trace.engine = "DragEngine"
    /\ LET r == CancelDrag(dragEngine.state)
           c == Cleanup([dragEngine EXCEPT !.state = r.engine], window)
       IN  IF IsDragging(dragEngine.state)
           THEN /\ Scrolled("cancelDrag", Idle, FALSE, r.effects, c.window, trace.pointer)
                /\ dragEngine' = c.engine
           ELSE /\ Scrolled("cancelDrag", Idle, FALSE, NoEffects, window, trace.pointer)
                /\ UNCHANGED dragEngine
    /\ UNCHANGED resizeEngine

\* DragEngine.destroy(): cancelDrag() when dragging, then cleanup()
ScrollDestroyDrag ==
    /\ trace.engine = "DragEngine"
    /\ LET r == CancelDrag(dragEngine.state)
           c == Cleanup([dragEngine EXCEPT !.state = r.engine], window)
       IN  /\ Scrolled("destroy", Idle, FALSE, r.effects, c.window, trace.pointer)
           /\ dragEngine' = c.engine
    /\ UNCHANGED resizeEngine

ScrollStartResize ==
    /\ trace.engine = "ResizeEngine"
    /\ \E p \in {[x |-> 3 * HalfPx, y |-> 3 * HalfPx]}, handle \in PageHandles :
          LET r == StartResize(0, handle, p.x \div HalfPx, p.y \div HalfPx,
                               resizeEngine.state, state)
          IN  /\ Scrolled("startResize", p, r.value, r.effects, window, trace.pointer)
              /\ resizeEngine' = [resizeEngine EXCEPT !.state = r.engine]
    /\ UNCHANGED dragEngine

ScrollUpdateResize ==
    /\ trace.engine = "ResizeEngine"
    /\ \E p \in ScrollPointers :
          LET r == UpdateResize(p.x \div HalfPx, p.y \div HalfPx, resizeEngine.state, columns)
              c == CheckAutoScroll(p.x, p.y, [resizeEngine EXCEPT !.state = r.engine], window)
          IN  IF IsResizing(resizeEngine.state)
              THEN /\ Scrolled("updateResize", p, FALSE, r.effects, c.window, p)
                   /\ resizeEngine' = c.engine
              ELSE /\ Scrolled("updateResize", p, FALSE, NoEffects, window, trace.pointer)
                   /\ UNCHANGED resizeEngine
    /\ UNCHANGED dragEngine

ScrollEndResize ==
    /\ trace.engine = "ResizeEngine"
    /\ LET r == EndResize(resizeEngine.state, state)
           c == Cleanup([resizeEngine EXCEPT !.state = r.engine], window)
       IN  IF IsResizing(resizeEngine.state)
           THEN /\ Scrolled("endResize", Idle, r.value, r.effects, c.window, trace.pointer)
                /\ resizeEngine' = c.engine
           ELSE /\ Scrolled("endResize", Idle, FALSE, NoEffects, window, trace.pointer)
                /\ UNCHANGED resizeEngine
    /\ UNCHANGED dragEngine

ScrollCancelResize ==
    /\ trace.engine = "ResizeEngine"
    /\ LET r == CancelResize(resizeEngine.state)
           c == Cleanup([resizeEngine EXCEPT !.state = r.engine], window)
       IN  IF IsResizing(resizeEngine.state)
           THEN /\ Scrolled("cancelResize", Idle, FALSE, r.effects, c.window, trace.pointer)
                /\ resizeEngine' = c.engine
           ELSE /\ Scrolled("cancelResize", Idle, FALSE, NoEffects, window, trace.pointer)
                /\ UNCHANGED resizeEngine
    /\ UNCHANGED dragEngine

\* ResizeEngine.destroy(): cancelResize() when resizing, then cleanup()
ScrollDestroyResize ==
    /\ trace.engine = "ResizeEngine"
    /\ LET r == CancelResize(resizeEngine.state)
           c == Cleanup([resizeEngine EXCEPT !.state = r.engine], window)
       IN  /\ Scrolled("destroy", Idle, FALSE, r.effects, c.window, trace.pointer)
           /\ resizeEngine' = c.engine
    /\ UNCHANGED dragEngine

\* an interval of the window ticks: container.scrollLeft += scrollX,
\* container.scrollTop += scrollY, within the scroll range of the container
IntervalTick ==
    \E t \in window.intervals :
        /\ trace.steps < MaxScrollSteps
        /\ op' = "tick"
        /\ arg' = [id |-> t.id]
        /\ ret' = NoRet
        /\ window' = [window EXCEPT
                         !.scrollLeft = Max(0, Min(MaxScroll, @ + t.scrollX)),
                         !.scrollTop = Max(0, Min(MaxScroll, @ + t.scrollY))]
        /\ trace' = [trace EXCEPT !.steps = @ + 1, !.last = NoEffects,
                                  !.ticked = [scrollX |-> t.scrollX, scrollY |-> t.scrollY]]
        /\ UNCHANGED <<pc, widgets, columns, state, options, dragEngine, resizeEngine,
                       breakpointManager>>

NextScroll ==
    \/ ScrollStartDrag \/ ScrollUpdateDrag \/ ScrollEndDrag \/ ScrollCancelDrag
    \/ ScrollDestroyDrag
    \/ ScrollStartResize \/ ScrollUpdateResize \/ ScrollEndResize \/ ScrollCancelResize
    \/ ScrollDestroyResize
    \/ IntervalTick

SpecScroll == InitScroll /\ [][NextScroll]_vars

\* the engine of the auto-scroll specification
ScrollEngine == IF trace.engine = "DragEngine" THEN dragEngine ELSE resizeEngine

\* the pointer is within the threshold of an edge of the container
InEdgeZone(p) == ScrollFor(p.x, p.y) # [scrollX |-> 0, scrollY |-> 0]

\* C32: the only interval there can be is the one the engine holds; when the
\* engine is idle no interval runs, and after an update whose pointer is
\* farther than the threshold from every edge no interval runs
C32_ScrollOnlyInSession ==
    /\ window.intervals = {t \in window.intervals : t.id = ScrollEngine.autoScrollInterval}
    /\ Cardinality(window.intervals) <= 1
    /\ (ScrollEngine.autoScrollInterval # Undef) = (window.intervals # {})
    /\ ~InSession(ScrollEngine) => window.intervals = {}
    /\ (op \in {"updateDrag", "updateResize"} /\ InSession(ScrollEngine)
          /\ ~InEdgeZone(trace.pointer)) => window.intervals = {}

\* a session scrolled at an edge, and its end stopped the interval
C32_Witness ==
    /\ op \in {"endDrag", "endResize", "cancelDrag", "cancelResize"}
    /\ ~InSession(ScrollEngine)
    /\ trace.ticked # [scrollX |-> 0, scrollY |-> 0]
    /\ InEdgeZone(trace.pointer)
    /\ ScrollEngine.autoScrollInterval = Undef
    /\ window.nextTimer > 1

\* C39: a tick scrolls in the direction given by the pointer position of the
\* most recent update
C39_TickFollowsPointer ==
    op = "tick" => trace.ticked = ScrollFor(trace.pointer.x, trace.pointer.y)

----------------------------------------------------------------------------
(* The float specification: one IAZDashboard constructed with floatMode, with  *)
(* both interaction engines, driven by its layout-changing methods, by          *)
(* beginBatch and endBatch, and by the pointer events of the page.              *)

\* the widgets a caller adds: two rows below the first row, or placed by the dashboard
FloatAdds == {[x |-> 0, y |-> 4], [x |-> Undef, y |-> Undef]}

\* the widget lists given to loadState: a widget with a free row above it, and none
FloatPayloads ==
    {<<MakeWidget(0, [x |-> 0, y |-> 1, w |-> 1, h |-> 1], NoFlags, NoLimits)>>, <<>>}

\* beginBatch(): batchMode = true
BeginBatch(opts) == [opts EXCEPT !.batchMode = TRUE]

\* (mutant: endBatch leaves the layout as the batch left it)
EndBatchNoCompact(st, opts) ==
    [state |-> st, options |-> [opts EXCEPT !.batchMode = FALSE]]

\* endBatch(): batchMode = false, compact() in floatMode
EndBatch(st, opts) ==
    [state |-> IF opts.floatMode THEN [st EXCEPT !.widgets = Compact(@)] ELSE st,
     options |-> [opts EXCEPT !.batchMode = FALSE]]

InitFloat ==
    \E ws \in PageLayouts, cols \in {MaxX + MaxSpan} :
        /\ op = "new IAZDashboard"
        /\ pc = "done"
        /\ widgets = ws
        /\ columns = cols
        /\ arg = Idle
        /\ ret = NoRet
        /\ state = [columns |-> cols, widgets |-> ws]
        /\ options = PageOptions(TRUE)
        /\ dragEngine = NoSession
        /\ resizeEngine = NoSession
        /\ breakpointManager = [isNull |-> TRUE]
        /\ window = [innerWidth |-> 0, clientWidth |-> 0]
        /\ trace = [page |-> "IAZDashboard", calls |-> 0, last |-> NoEffects, nextId |-> 2,
                    before |-> ws]

\* the bookkeeping of beginBatch, endBatch and loadState
Batched(name, a, effects, st, opts) ==
    /\ trace.calls < MaxCalls
    /\ op' = name
    /\ arg' = a
    /\ ret' = NoRet
    /\ state' = st
    /\ options' = opts
    /\ trace' = [trace EXCEPT !.calls = @ + 1, !.last = effects, !.before = state.widgets]
    /\ UNCHANGED <<pc, widgets, columns, dragEngine, resizeEngine, breakpointManager, window>>

\* dashboard.beginBatch()
BeginBatchCall ==
    /\ ~options.batchMode
    /\ Batched("beginBatch", Idle, NoEffects, state, BeginBatch(options))

\* dashboard.endBatch()
EndBatchCall ==
    /\ trace.calls < MaxCalls
    /\ LET r == EndBatch(state, options)
       IN  Batched("endBatch", Idle, Effects(<<Emit("layout:change", Undef, FALSE)>>, <<>>),
                   r.state, r.options)

\* dashboard.loadState({widgets})
FloatLoadState ==
    \E ws \in FloatPayloads :
        LET r == LoadState(JsObject(JsList(ws), Undef), FALSE,
                           [state EXCEPT !.widgets = JsList(@)], options)
        IN  /\ r.thrown = "none"
            /\ Batched("loadState", [widgets |-> ws], Effects(r.emitted, <<>>),
                       [r.state EXCEPT !.widgets = @.items], options)

\* dashboard.addWidget(widget), inside or outside a batch
FloatAddWidget ==
    \E a \in FloatAdds :
        LET widget == MakeWidget(trace.nextId, [x |-> a.x, y |-> a.y, w |-> 1, h |-> 1],
                                 NoFlags, NoLimits)
            r == AddWidget(widget, FALSE, FALSE, state, options)
        IN  /\ Len(state.widgets) < MaxWidgets
            /\ Handled("addWidget", [widget |-> widget], TRUE,
                       Effects(<<Emit("widget:add", widget.id, FALSE)>>
                                 \o (IF Len(r.colliding) > 0 /\ ~options.batchMode
                                     THEN <<Emit("layout:change", Undef, FALSE)>> ELSE <<>>),
                               <<>>),
                       [state EXCEPT !.widgets = r.widgets])
            /\ UNCHANGED <<dragEngine, resizeEngine>>

NextFloat ==
    \/ BeginBatchCall \/ EndBatchCall \/ FloatLoadState \/ FloatAddWidget
    \/ PageMoveWidget \/ PageResizeWidget \/ PageRemoveWidget
    \/ PointerDownFrame \/ PointerDownHandle \/ PointerMove \/ PointerUp

SpecFloat == InitFloat /\ [][NextFloat]_vars

\* the widget of ws with the id of w has the y of w
SameRow(w, ws) == \A j \in 1..Len(ws) : ws[j].id = w.id => ws[j].y = w.y

\* ws is a fixed point of compactLayout: it changes no widget's y
FixedPoint(ws) == \A i \in 1..Len(ws) : SameRow(ws[i], CompactLayout(ws))

\* the method that ran last changed the layout and compacts in floatMode
\* whether a batch is open or not
CompactsAtOnce ==
    \/ op \in {"removeWidget", "loadState"}
    \/ op \in {"moveWidget", "resizeWidget"} /\ ret.value = TRUE
    \/ op = "pointerup" /\ Committed

C40_WitnessCommitted ==
    /\ op = "pointerup"
    /\ Committed
    /\ ~options.batchMode
    /\ ~FixedPoint(trace.last.setState[Len(trace.last.setState)])
    /\ FixedPoint(state.widgets)

====
